---- MODULE Spec2Model ----
(***************************************************************************)
(* Model of the generation-task tracking code of the vocational editor:    *)
(*  - the zustand store useVocationalStore (image slots, image progress,   *)
(*    image task id, push-channel flag),                                   *)
(*  - the push-channel hook useImageGenerationWS (socket.io client),       *)
(*  - the workflow part of the VocationalEditor page (step derivation,     *)
(*    launchers and their polling loops).                                  *)
(* Three specifications share the variables: SpecStore, SpecWS and         *)
(* SpecEditor; each leaves the variables of the other parts untouched.     *)
(***************************************************************************)
EXTENDS Integers, Sequences, FiniteSets, TLC

VARIABLES
    imageSlots,      \* store: ImageSlot[] (sequence of slot records)
    imageProgress,   \* store: {total, completed, failed}
    imageTaskId,     \* store: string | null
    wsConnected,     \* store: boolean
    lastEvent,       \* the message the store-facing handler ran last (NoEvent at start)
    repeated,        \* TRUE iff that message is the same as the one handled before it
    mounted,         \* hook: a component using useImageGenerationWS is mounted
    taskProp,        \* hook: its taskId option (projectId is fixed and non-null)
    socketRef,       \* hook: socketRef.current, "null" or "socket"
    sockState,       \* socket.io: "none", "opening", "open", "waiting" (reconnect timer), "closed"
    backoffAttempts, \* socket.io: reconnection attempts made since the last reset
    reconnectAttempts, \* hook: reconnectAttempts.current
    isConnected,     \* hook: isConnected
    connectionError, \* hook: connectionError ("null" or a notice)
    sockTask,        \* hook: the taskId the socket's handlers were created with
    wire,            \* hook: what its last step emitted on / did to the socket, in order
    currentProject,  \* project store: the persisted document, [loaded, pages]
    pages,           \* store: pages (the title of each VocationalPage)
    previewUrl,      \* store: previewUrl, None or a url
    currentStep,     \* editor: currentStep
    completedSteps,  \* editor: completedSteps
    autoStep,        \* editor: autoStep of the last run of the step-derivation effect
    effectPending,   \* editor: a dependency of the step-derivation effect changed
    docChanged,      \* editor: ... and the change brought new document content
    autoPreviewPending,  \* editor: a request of autoGeneratePreview is in flight
    isLoadingPreview,    \* editor: isLoadingPreview
    isGeneratingImages,  \* editor: isGeneratingImages
    isExporting,     \* editor: isExporting
    imgPoll,         \* editor: where the image job's launch / pollImageStatus chain is
    statusRes,       \* editor: the last status response pollImageStatus handled
    stepAdvances,    \* editor: calls of setCurrentStep('export') by pollImageStatus
    editorMounted,   \* editor: the VocationalEditor component is mounted
    isGeneratingDescriptions, \* editor: isGeneratingDescriptions
    descPoll,        \* editor: where the description job's launch / pollTaskStatus chain is
    descStatus,      \* editor: the status of the last response pollTaskStatus handled
    pvMounted,       \* HTMLPreview: the component is mounted
    pvGenerating,    \* HTMLPreview: imageState.isGenerating
    pvLaunch,        \* HTMLPreview: the request of handleGenerateImages is in flight
    pvInterval,      \* HTMLPreview: pollingIntervalRef.current holds a running interval
    pvInflight,      \* HTMLPreview: status requests of the interval callback in flight
    pvDone,          \* HTMLPreview: a terminal status was handled since the interval was set
    imgDelay,        \* editor: delay (ms) of the pending setTimeout(pollImageStatus), 0 if none
    descDelay,       \* editor: delay (ms) of the pending setTimeout(pollTaskStatus), 0 if none
    pvDelay,         \* HTMLPreview: period (ms) of the interval in pollingIntervalRef, 0 if none
    pvLast,          \* HTMLPreview: how the last interval callback ended (none, response, error)
    pollNotice,      \* editor: the last notice shown by pollTaskStatus / pollImageStatus
    launchNotice,    \* editor: the notice handleGenerateImages showed before its first await
    imgFailNotices,  \* editor: failure notices of pollImageStatus since the job was launched
    pvSlots,         \* HTMLPreview: renderResult (none, or its image_slots empty / some)
    pvNotice,        \* HTMLPreview: the last notice shown by the interval callback
    pvLaunchNotice,  \* HTMLPreview: the notice handleGenerateImages showed before its await
    pvFailNotices,   \* HTMLPreview: failure notices of the interval callback since startPolling
    isGeneratingOutline, \* editor: isGeneratingOutline
    outlinePos,          \* editor: where handleGenerateOutline is (none, generating, syncing, previewing)
    regeneratingSlotId,  \* editor: regeneratingSlotId (a per-slot regenerate is in flight)
    staleSockets,   \* hook: sockets made by io() that are live and no longer held in socketRef
    imgTimers,   \* editor: pending setTimeout(pollImageStatus) timers
    pvTimers,  \* HTMLPreview: running setInterval timers of startPolling
    localTitle,   \* OutlineItemEditor: localTitle
    localBullets,   \* OutlineItemEditor: localBullets, as its lines
    debounceRef,   \* OutlineItemEditor: the pending timer of debounceRef.current (NoTimer if none)
    pageTitle,   \* store: the title of the edited page
    pageBullets,   \* store: the bullets of the edited page
    titleCommits,   \* calls of onUpdateTitle since the last title input (<<>> before any input)
    bulletCommits   \* calls of onUpdateBullets since the last bullets input (<<>> before any input)

storeVars == <<imageSlots, imageProgress, imageTaskId, wsConnected>>
eventVars == <<lastEvent, repeated>>
hookVars == <<mounted, taskProp, socketRef, sockState, backoffAttempts,
              reconnectAttempts, isConnected, connectionError, sockTask, wire>>
editorVars == <<currentProject, pages, previewUrl, currentStep, completedSteps,
                autoStep, effectPending, docChanged, autoPreviewPending,
                isLoadingPreview,
                isGeneratingImages,
                isExporting, imgPoll, statusRes, stepAdvances>>
descVars == <<editorMounted, isGeneratingDescriptions, descPoll, descStatus>>
pvVars == <<pvMounted, pvGenerating, pvLaunch, pvInterval, pvInflight, pvDone>>
timerVars == <<imgDelay, descDelay, pvDelay, pvLast>>
noticeVars == <<pollNotice, launchNotice, imgFailNotices, pvSlots, pvNotice, pvLaunchNotice, pvFailNotices>>
launchVars == <<isGeneratingOutline, outlinePos, regeneratingSlotId>>
channelVars == <<staleSockets, imgTimers, pvTimers>>
outlineEditVars == <<localTitle, localBullets, debounceRef, pageTitle, pageBullets, titleCommits, bulletCommits>>
vars == <<storeVars, eventVars, hookVars, editorVars, descVars, pvVars, timerVars, noticeVars, launchVars, channelVars, outlineEditVars>>

----------------------------------------------------------------------------
(* Values *)

\* JavaScript undefined / null for an optional field.
None == "undefined"

SlotIds == {"s1", "s2"}
\* A slot id the server may name that is not (or no longer) in the live slot set.
Paths == {"img1", "img2"}
ImageSlotStatus == {"pending", "generating", "completed", "failed", "uploaded"}

\* Largest `total` of a progress snapshot the server sends in this model.
MaxTotal == 1

\* The progress snapshots of the task-status service: complete snapshots of its
\* counters (WSMessage.progress).
Snapshots ==
    {[total |-> t, completed |-> c, failed |-> f] :
        <<t, c, f>> \in {x \in (0..MaxTotal) \X (0..MaxTotal) \X (0..MaxTotal) :
                            x[2] + x[3] <= x[1]}}

initialProgress == [total |-> 0, completed |-> 0, failed |-> 0]

\* page_index and description of a slot, as the render service assigns them.
PageIndexOf(id) == IF id = "s1" THEN 0 ELSE 1
DescriptionOf(id) == IF id = "s1" THEN "d1" ELSE "d2"

\* image_slots of a render response: distinct slot ids, in page order.
RenderSlotLists ==
    {<<>>} \cup {<<a>> : a \in SlotIds}
           \cup {<<a, b>> : <<a, b>> \in {x \in SlotIds \X SlotIds :
                                            PageIndexOf(x[1]) < PageIndexOf(x[2])}}

----------------------------------------------------------------------------
(* The store's operations (useVocationalStore) *)

\* A variant that keeps the stored record of a slot that is listed again.
setImageSlotsKeeping(slots) ==
    [i \in DOMAIN slots |->
        IF \E k \in DOMAIN imageSlots : imageSlots[k].slot_id = slots[i].slot_id
        THEN imageSlots[CHOOSE k \in DOMAIN imageSlots :
                            imageSlots[k].slot_id = slots[i].slot_id]
        ELSE slots[i]]

setImageSlots(slots) == slots

setImageTaskId(taskId) == taskId

\* A variant that adds the snapshot's counters to the stored ones.
updateImageProgressAdd(cur, progress) ==
    [total |-> progress.total,
     completed |-> cur.completed + progress.completed,
     failed |-> cur.failed + progress.failed]

updateImageProgress(cur, progress) == progress

\* A variant that always takes the first operand.
CoalesceFirst(a, b) == a

\* imagePath ?? slot.image_path
Coalesce(a, b) == IF a # None THEN a ELSE b

\* A variant that appends the updated record instead of replacing the old one.
updateSlotStatusAppend(slots, slotId, status, imagePath) ==
    slots \o SelectSeq(
        [i \in DOMAIN slots |->
            [slots[i] EXCEPT !.status = status,
                             !.image_path = Coalesce(imagePath, slots[i].image_path)]],
        LAMBDA r : r.slot_id = slotId)

\* A variant that leaves a slot that is generating alone.
updateSlotStatusUnlessGenerating(slots, slotId, status, imagePath) ==
    [i \in DOMAIN slots |->
        IF slots[i].slot_id = slotId /\ slots[i].status # "generating"
        THEN [slots[i] EXCEPT !.status = status,
                              !.image_path = Coalesce(imagePath, slots[i].image_path)]
        ELSE slots[i]]

\* A variant that adds a record for a slot id no slot has.
updateSlotStatusUpsert(slots, slotId, status, imagePath) ==
    IF \E i \in DOMAIN slots : slots[i].slot_id = slotId
    THEN [i \in DOMAIN slots |->
            IF slots[i].slot_id = slotId
            THEN [slots[i] EXCEPT !.status = status,
                                  !.image_path = Coalesce(imagePath, slots[i].image_path)]
            ELSE slots[i]]
    ELSE Append(slots, [slot_id |-> slotId, page_index |-> 0, description |-> "",
                        status |-> status, image_path |-> imagePath])

\* A variant that gives every slot the status.
updateSlotStatusAll(slots, slotId, status, imagePath) ==
    [i \in DOMAIN slots |->
        IF slots[i].slot_id = slotId
        THEN [slots[i] EXCEPT !.status = status,
                              !.image_path = Coalesce(imagePath, slots[i].image_path)]
        ELSE [slots[i] EXCEPT !.status = status]]

updateSlotStatus(slots, slotId, status, imagePath) ==
    [i \in DOMAIN slots |->
        IF slots[i].slot_id = slotId
        THEN [slots[i] EXCEPT !.status = status,
                              !.image_path = Coalesce(imagePath, slots[i].image_path)]
        ELSE slots[i]]

----------------------------------------------------------------------------
(* Messages of the push channel (WSMessage) and the user's slot operations *)

NoEvent == [type |-> "none", slot_id |-> None, image_path |-> None, progress |-> <<>>]

Msg(type, slotId, imagePath, progress) ==
    [type |-> type, slot_id |-> slotId, image_path |-> imagePath, progress |-> progress]

MsgSlotIds == SlotIds \cup {None}
MsgPaths == Paths \cup {None}
\* An optional progress field: <<>> when the message carries none, <<p>> otherwise.
NoProgress == <<>>
MsgProgress == {NoProgress} \cup {<<p>> : p \in Snapshots}

\* What each handler of useImageGenerationWS does to the store, as a function of
\* the store fields it writes: st = [imageSlots, imageProgress, imageTaskId].
Store == [imageSlots |-> imageSlots, imageProgress |-> imageProgress,
          imageTaskId |-> imageTaskId]

handleSlotStarted(st, data) ==
    IF data.slot_id # None
    THEN [st EXCEPT !.imageSlots = updateSlotStatus(@, data.slot_id, "generating", None)]
    ELSE st

WithProgress(st, data) ==
    IF data.progress # NoProgress
    THEN [st EXCEPT !.imageProgress = updateImageProgress(@, data.progress[1])]
    ELSE st

handleSlotCompleted(st, data) ==
    WithProgress(
        IF data.slot_id # None
        THEN [st EXCEPT !.imageSlots =
                  updateSlotStatus(@, data.slot_id, "completed", data.image_path)]
        ELSE st,
        data)

\* A variant that counts one more failure per delivered event.
handleSlotFailedCounting(st, data) ==
    [st EXCEPT !.imageSlots =
                  IF data.slot_id # None
                  THEN updateSlotStatus(@, data.slot_id, "failed", None) ELSE @,
               !.imageProgress = [@ EXCEPT !.failed = @ + 1]]

handleSlotFailed(st, data) ==
    WithProgress(
        IF data.slot_id # None
        THEN [st EXCEPT !.imageSlots = updateSlotStatus(@, data.slot_id, "failed", None)]
        ELSE st,
        data)

handleTaskCompleted(st, data) ==
    WithProgress([st EXCEPT !.imageTaskId = setImageTaskId(None)], data)

\* A variant that discards the job's results with the job.
handleTaskFailedDiscarding(st, data) ==
    [st EXCEPT !.imageTaskId = setImageTaskId(None),
               !.imageSlots = <<>>,
               !.imageProgress = initialProgress]

handleTaskFailed(st, data) ==
    [st EXCEPT !.imageTaskId = setImageTaskId(None)]

\* The handler socket.on registers for each event name.
Dispatch(st, data) ==
    CASE data.type = "slot_started"   -> handleSlotStarted(st, data)
      [] data.type = "slot_completed" -> handleSlotCompleted(st, data)
      [] data.type = "slot_failed"    -> handleSlotFailed(st, data)
      [] data.type = "task_completed" -> handleTaskCompleted(st, data)
      [] data.type = "task_failed"    -> handleTaskFailed(st, data)
      [] OTHER                        -> st

Record(data) ==
    /\ lastEvent' = data
    /\ repeated' = (data = lastEvent)

Apply(st) ==
    /\ imageSlots' = st.imageSlots
    /\ imageProgress' = st.imageProgress
    /\ imageTaskId' = st.imageTaskId

----------------------------------------------------------------------------
(* The push-channel hook's own state (useImageGenerationWS) *)

InitHook ==
    /\ mounted = FALSE
    /\ taskProp = None
    /\ socketRef = "null"
    /\ sockState = "none"
    /\ backoffAttempts = 0
    /\ reconnectAttempts = 0
    /\ isConnected = FALSE
    /\ connectionError = "null"
    /\ sockTask = None
    /\ wire = <<>>

----------------------------------------------------------------------------
(* The editor's workflow state (VocationalEditor) *)

WorkflowStep == {"outline", "descriptions", "images", "export"}
stepOrder == <<"outline", "descriptions", "images", "export">>
getStepIndex(step) == CHOOSE i \in DOMAIN stepOrder : stepOrder[i] = step

NoProject == [loaded |-> FALSE, pages |-> <<>>]

\* A notice of show({message, type}): its type, which message it is, and whether
\* the message reports the number of failed items.
Notice(type, text, reportsFailed) ==
    [type |-> type, text |-> text, reportsFailed |-> reportsFailed]
NoNotice == Notice("none", "none", FALSE)
\* An optional result map of a status response: <<>> when it carries none,
\* <<entry>> with the entry of one slot otherwise.
NoResult == <<>>
NoStatus == [status |-> "none", progress |-> NoProgress, result |-> NoResult]

InitWorkflow ==
    /\ currentProject = NoProject
    /\ pages = <<>>
    /\ previewUrl = None
    /\ currentStep = "outline"
    /\ completedSteps = {}
    /\ autoStep = "outline"
    /\ effectPending = FALSE
    /\ docChanged = FALSE
    /\ autoPreviewPending = FALSE
    /\ isLoadingPreview = FALSE
    /\ isGeneratingImages = FALSE
    /\ isExporting = FALSE
    /\ imgPoll = "none"
    /\ statusRes = NoStatus
    /\ stepAdvances = 0
    /\ isGeneratingDescriptions = FALSE
    /\ descPoll = "none"
    /\ descStatus = "none"
    /\ pvGenerating = FALSE
    /\ pvLaunch = FALSE
    /\ pvInterval = FALSE
    /\ pvInflight = 0
    /\ pvDone = FALSE
    /\ imgDelay = 0
    /\ descDelay = 0
    /\ pvDelay = 0
    /\ pvLast = "none"
    /\ pollNotice = NoNotice
    /\ launchNotice = NoNotice
    /\ imgFailNotices = 0
    /\ pvSlots = "none"
    /\ pvNotice = NoNotice
    /\ pvLaunchNotice = NoNotice
    /\ pvFailNotices = 0
    /\ isGeneratingOutline = FALSE
    /\ outlinePos = "none"
    /\ regeneratingSlotId = None
    /\ staleSockets = 0
    /\ imgTimers = 0
    /\ pvTimers = 0
    /\ localTitle = "t0"
    /\ localBullets = <<>>
    /\ debounceRef = [field |-> "none", value |-> <<>>]
    /\ pageTitle = "t0"
    /\ pageBullets = <<>>
    /\ titleCommits = <<>>
    /\ bulletCommits = <<>>

InitEditor ==
    /\ InitWorkflow
    /\ editorMounted = TRUE
    /\ pvMounted = TRUE

----------------------------------------------------------------------------
(* SpecStore: the store under push events, renders, regenerate and upload *)

InitStore ==
    /\ imageSlots = <<>>
    /\ imageProgress = initialProgress
    /\ imageTaskId = None
    /\ wsConnected = FALSE
    /\ lastEvent = NoEvent
    /\ repeated = FALSE
    /\ InitHook
    /\ InitEditor

\* autoGeneratePreview / handleGeneratePreview: every slot of the render response
\* is installed with status pending.
PendingSlot(id) ==
    [slot_id |-> id, page_index |-> PageIndexOf(id), description |-> DescriptionOf(id),
     status |-> "pending", image_path |-> None]

InstallRender(list) ==
    /\ imageSlots' = setImageSlots([i \in DOMAIN list |-> PendingSlot(list[i])])
    /\ Record(Msg("render", None, None, NoProgress))
    /\ UNCHANGED <<imageProgress, imageTaskId, wsConnected, hookVars, editorVars, descVars, pvVars>>
    /\ UNCHANGED timerVars
    /\ UNCHANGED noticeVars
    /\ UNCHANGED launchVars
    /\ UNCHANGED channelVars
    /\ UNCHANGED outlineEditVars

OnSlotStarted(id) ==
    LET data == Msg("slot_started", id, None, NoProgress) IN
    /\ Apply(Dispatch(Store, data))
    /\ Record(data)
    /\ UNCHANGED <<wsConnected, hookVars, editorVars, descVars, pvVars>>
    /\ UNCHANGED timerVars
    /\ UNCHANGED noticeVars
    /\ UNCHANGED launchVars
    /\ UNCHANGED channelVars
    /\ UNCHANGED outlineEditVars

OnSlotCompleted(id, path, progress) ==
    LET data == Msg("slot_completed", id, path, progress) IN
    /\ Apply(Dispatch(Store, data))
    /\ Record(data)
    /\ UNCHANGED <<wsConnected, hookVars, editorVars, descVars, pvVars>>
    /\ UNCHANGED timerVars
    /\ UNCHANGED noticeVars
    /\ UNCHANGED launchVars
    /\ UNCHANGED channelVars
    /\ UNCHANGED outlineEditVars

OnSlotFailed(id, progress) ==
    LET data == Msg("slot_failed", id, None, progress) IN
    /\ Apply(Dispatch(Store, data))
    /\ Record(data)
    /\ UNCHANGED <<wsConnected, hookVars, editorVars, descVars, pvVars>>
    /\ UNCHANGED timerVars
    /\ UNCHANGED noticeVars
    /\ UNCHANGED launchVars
    /\ UNCHANGED channelVars
    /\ UNCHANGED outlineEditVars

OnTaskCompleted(progress) ==
    LET data == Msg("task_completed", None, None, progress) IN
    /\ Apply(Dispatch(Store, data))
    /\ Record(data)
    /\ UNCHANGED <<wsConnected, hookVars, editorVars, descVars, pvVars>>
    /\ UNCHANGED timerVars
    /\ UNCHANGED noticeVars
    /\ UNCHANGED launchVars
    /\ UNCHANGED channelVars
    /\ UNCHANGED outlineEditVars

OnTaskFailed ==
    LET data == Msg("task_failed", None, None, NoProgress) IN
    /\ Apply(Dispatch(Store, data))
    /\ Record(data)
    /\ UNCHANGED <<wsConnected, hookVars, editorVars, descVars, pvVars>>
    /\ UNCHANGED timerVars
    /\ UNCHANGED noticeVars
    /\ UNCHANGED launchVars
    /\ UNCHANGED channelVars
    /\ UNCHANGED outlineEditVars

\* A caller of the store records the job it tracks.
TrackJob ==
    /\ imageTaskId = None
    /\ imageTaskId' = setImageTaskId("t1")
    /\ Record(Msg("track", None, None, NoProgress))
    /\ UNCHANGED <<imageSlots, imageProgress, wsConnected, hookVars, editorVars, descVars, pvVars>>
    /\ UNCHANGED timerVars
    /\ UNCHANGED noticeVars
    /\ UNCHANGED launchVars
    /\ UNCHANGED channelVars
    /\ UNCHANGED outlineEditVars

\* handleRegenerateSingleImage, when the response carries a task_id.
RegenerateSlot(id) ==
    /\ \E i \in DOMAIN imageSlots : imageSlots[i].slot_id = id
    /\ imageSlots' = updateSlotStatus(imageSlots, id, "generating", None)
    /\ Record(Msg("regenerate", id, None, NoProgress))
    /\ UNCHANGED <<imageProgress, imageTaskId, wsConnected, hookVars, editorVars, descVars, pvVars>>
    /\ UNCHANGED timerVars
    /\ UNCHANGED noticeVars
    /\ UNCHANGED launchVars
    /\ UNCHANGED channelVars
    /\ UNCHANGED outlineEditVars

\* handleUploadSlotImage, when the response carries an image_url.
UploadSlot(id, url) ==
    /\ imageSlots' = updateSlotStatus(imageSlots, id, "uploaded", url)
    /\ Record(Msg("upload", id, url, NoProgress))
    /\ UNCHANGED <<imageProgress, imageTaskId, wsConnected, hookVars, editorVars, descVars, pvVars>>
    /\ UNCHANGED timerVars
    /\ UNCHANGED noticeVars
    /\ UNCHANGED launchVars
    /\ UNCHANGED channelVars
    /\ UNCHANGED outlineEditVars

NextStore ==
    \/ \E list \in RenderSlotLists : InstallRender(list)
    \/ \E id \in MsgSlotIds : OnSlotStarted(id)
    \/ \E id \in MsgSlotIds, path \in MsgPaths, progress \in MsgProgress :
           OnSlotCompleted(id, path, progress)
    \/ \E id \in MsgSlotIds, progress \in MsgProgress : OnSlotFailed(id, progress)
    \/ \E progress \in MsgProgress : OnTaskCompleted(progress)
    \/ OnTaskFailed
    \/ TrackJob
    \/ \E id \in SlotIds : RegenerateSlot(id)
    \/ \E id \in SlotIds, url \in Paths : UploadSlot(id, url)

SpecStore == InitStore /\ [][NextStore]_vars

----------------------------------------------------------------------------
(* SpecWS: the push-channel hook and its socket.io socket *)

MAX_RECONNECT_ATTEMPTS == 10

\* Bound on reconnectAttempts.current, which the hook never caps.
MaxFailures == 12

TaskIds == {"t1", "t2"}

\* socket.io Manager.reconnect(): called after a failed open or a transport
\* close. With the budget (reconnectionAttempts) used up it gives up and resets
\* the backoff; otherwise it counts one more attempt and arms the timer.
LibReconnect(attempts) ==
    IF attempts >= MAX_RECONNECT_ATTEMPTS
    THEN [state |-> "closed", attempts |-> 0]
    ELSE [state |-> "waiting", attempts |-> attempts + 1]

\* What goes out on the socket: an emitted message, or socket.disconnect().
Emit(type, task) == [op |-> type, task_id |-> task]
Close(task) == [op |-> "close", task_id |-> task]

\* socket.disconnect() on the socket in socketRef; a closed socket stays closed.
closeWire == IF sockState \in {"none", "closed"} THEN <<>> ELSE <<Close(sockTask)>>

\* The socket of the hook is connecting, connected or waiting to reconnect.
SocketLive == sockState \in {"opening", "open", "waiting"}

\* A variant of connect() that leaves the socket in socketRef as it is.
closesExistingNever(ref) == FALSE

\* if (socketRef.current) { socketRef.current.disconnect(); } of connect()
closesExisting(ref) == ref = "socket"

\* connect(): the socket in socketRef, if any, is disconnected.
connectWire == IF closesExisting(socketRef) THEN closeWire ELSE <<>>

\* disconnect(): unsubscribe_task (when the ids are set), then disconnect.
disconnectWire ==
    IF socketRef = "socket"
    THEN (IF taskProp # None THEN <<Emit("unsubscribe_task", taskProp)>> ELSE <<>>)
         \o closeWire
    ELSE <<>>

\* A 'connect' handler that does not subscribe.
subscribeOnConnectNone(task) == <<>>

\* The 'connect' handler's emit.
subscribeOnConnect(task) == <<Emit("subscribe_task", task)>>

\* The 'disconnect' handler of the hook.
OnDisconnectEvent ==
    /\ isConnected' = FALSE
    /\ wsConnected' = FALSE

\* socket.disconnect() called by the hook: an open socket fires 'disconnect';
\* the socket and its manager stop (no reconnection).
CloseSocketFlags ==
    IF sockState = "open" THEN OnDisconnectEvent
    ELSE UNCHANGED <<isConnected, wsConnected>>

\* connect(): closes the socket held in socketRef, if any, and opens a new one
\* with io(...); io() throwing leaves the catch branch.
connect(created) ==
    /\ wire' = connectWire
    /\ sockTask' = IF created THEN taskProp' ELSE sockTask
    /\ IF closesExisting(socketRef) THEN CloseSocketFlags
       ELSE UNCHANGED <<isConnected, wsConnected>>
    /\ staleSockets' = IF created /\ ~closesExisting(socketRef) /\ SocketLive
                       THEN staleSockets + 1 ELSE staleSockets
    /\ IF created
       THEN /\ socketRef' = "socket"
            /\ sockState' = "opening"
            /\ backoffAttempts' = 0
            /\ connectionError' = connectionError
       ELSE /\ socketRef' = socketRef
            /\ sockState' = IF closesExisting(socketRef) THEN "closed" ELSE sockState
            /\ backoffAttempts' = backoffAttempts
            /\ connectionError' = "createFailed"
    /\ UNCHANGED reconnectAttempts

\* disconnect(): unsubscribes and closes the socket in socketRef, clears the ref
\* and the two connection flags.
disconnect ==
    /\ wire' = disconnectWire
    /\ sockTask' = sockTask
    /\ socketRef' = "null"
    /\ sockState' = IF socketRef = "socket" THEN "closed" ELSE sockState
    /\ isConnected' = FALSE
    /\ wsConnected' = FALSE
    /\ UNCHANGED <<backoffAttempts, reconnectAttempts, connectionError>>

\* The component mounts with a task id (or none): the effect runs connect() or
\* disconnect().
Mount(task, created) ==
    /\ ~mounted
    /\ mounted' = TRUE
    /\ taskProp' = task
    /\ IF task # None THEN connect(created)
       ELSE disconnect /\ UNCHANGED staleSockets
    /\ UNCHANGED <<imgTimers, pvTimers>>
    /\ UNCHANGED <<imageSlots, imageProgress, imageTaskId, eventVars, editorVars, descVars, pvVars>>
    /\ UNCHANGED timerVars
    /\ UNCHANGED noticeVars
    /\ UNCHANGED launchVars
    /\ UNCHANGED outlineEditVars

\* The taskId option changes: the effect's cleanup runs disconnect(), then the
\* effect runs connect() (a task id) or disconnect() (null).
ChangeTask(task, created) ==
    /\ mounted
    /\ task # taskProp
    /\ mounted' = mounted
    /\ taskProp' = task
    /\ isConnected' = FALSE
    /\ wsConnected' = FALSE
    /\ wire' = disconnectWire
    /\ sockTask' = IF task # None /\ created THEN task ELSE sockTask
    /\ IF task # None /\ created
       THEN /\ socketRef' = "socket"
            /\ sockState' = "opening"
            /\ backoffAttempts' = 0
            /\ connectionError' = connectionError
       ELSE /\ socketRef' = "null"
            /\ sockState' = IF socketRef = "socket" THEN "closed" ELSE sockState
            /\ backoffAttempts' = backoffAttempts
            /\ connectionError' = IF task # None THEN "createFailed" ELSE connectionError
    /\ UNCHANGED reconnectAttempts
    /\ UNCHANGED <<imageSlots, imageProgress, imageTaskId, eventVars, editorVars, descVars, pvVars>>
    /\ UNCHANGED timerVars
    /\ UNCHANGED noticeVars
    /\ UNCHANGED launchVars
    /\ UNCHANGED channelVars
    /\ UNCHANGED outlineEditVars

\* The component unmounts: cleanup runs disconnect(); the hook's refs and state
\* are gone (a later mount starts from their initial values).
Unmount ==
    /\ mounted
    /\ mounted' = FALSE
    /\ taskProp' = None
    /\ wire' = disconnectWire
    /\ sockTask' = sockTask
    /\ socketRef' = "null"
    /\ sockState' = IF socketRef = "socket" THEN "closed" ELSE sockState
    /\ backoffAttempts' = backoffAttempts
    /\ reconnectAttempts' = 0
    /\ isConnected' = FALSE
    /\ wsConnected' = FALSE
    /\ connectionError' = "null"
    /\ UNCHANGED <<imageSlots, imageProgress, imageTaskId, eventVars, editorVars, descVars, pvVars>>
    /\ UNCHANGED timerVars
    /\ UNCHANGED noticeVars
    /\ UNCHANGED launchVars
    /\ UNCHANGED channelVars
    /\ UNCHANGED outlineEditVars

\* The caller invokes the returned reconnect (= connect).
Reconnect(created) ==
    /\ mounted
    /\ taskProp # None
    /\ UNCHANGED <<mounted, taskProp>>
    /\ connect(created)
    /\ UNCHANGED <<imgTimers, pvTimers>>
    /\ UNCHANGED <<imageSlots, imageProgress, imageTaskId, eventVars, editorVars, descVars, pvVars>>
    /\ UNCHANGED timerVars
    /\ UNCHANGED noticeVars
    /\ UNCHANGED launchVars
    /\ UNCHANGED outlineEditVars

\* The caller invokes the returned disconnect.
Disconnect ==
    /\ mounted
    /\ UNCHANGED <<mounted, taskProp>>
    /\ disconnect
    /\ UNCHANGED <<imageSlots, imageProgress, imageTaskId, eventVars, editorVars, descVars, pvVars>>
    /\ UNCHANGED timerVars
    /\ UNCHANGED noticeVars
    /\ UNCHANGED launchVars
    /\ UNCHANGED channelVars
    /\ UNCHANGED outlineEditVars

\* A connection attempt succeeds: the 'connect' handler runs (and subscribes);
\* socket.io resets its backoff.
ConnectOk ==
    /\ sockState = "opening"
    /\ sockState' = "open"
    /\ backoffAttempts' = 0
    /\ isConnected' = TRUE
    /\ wsConnected' = TRUE
    /\ connectionError' = "null"
    /\ reconnectAttempts' = 0
    /\ wire' = subscribeOnConnect(sockTask)
    /\ UNCHANGED <<mounted, taskProp, socketRef, sockTask>>
    /\ UNCHANGED <<imageSlots, imageProgress, imageTaskId, eventVars, editorVars, descVars, pvVars>>
    /\ UNCHANGED timerVars
    /\ UNCHANGED noticeVars
    /\ UNCHANGED launchVars
    /\ UNCHANGED channelVars
    /\ UNCHANGED outlineEditVars

\* The notice the 'connect_error' handler leaves for a counter value.
ErrorNotice(count) ==
    IF count >= MAX_RECONNECT_ATTEMPTS THEN "failed" ELSE "error"

\* A connection attempt fails: the 'connect_error' handler runs, then socket.io
\* decides whether to try again.
ConnectError ==
    /\ sockState = "opening"
    /\ reconnectAttempts < MaxFailures
    /\ reconnectAttempts' = reconnectAttempts + 1
    /\ connectionError' = ErrorNotice(reconnectAttempts + 1)
    /\ sockState' = LibReconnect(backoffAttempts).state
    /\ backoffAttempts' = LibReconnect(backoffAttempts).attempts
    /\ wire' = <<>>
    /\ UNCHANGED <<mounted, taskProp, socketRef, isConnected, wsConnected, sockTask>>
    /\ UNCHANGED <<imageSlots, imageProgress, imageTaskId, eventVars, editorVars, descVars, pvVars>>
    /\ UNCHANGED timerVars
    /\ UNCHANGED noticeVars
    /\ UNCHANGED launchVars
    /\ UNCHANGED channelVars
    /\ UNCHANGED outlineEditVars

\* The reconnect timer fires: socket.io makes the next attempt.
ReconnectTimer ==
    /\ sockState = "waiting"
    /\ sockState' = "opening"
    /\ wire' = <<>>
    /\ UNCHANGED <<mounted, taskProp, socketRef, backoffAttempts, reconnectAttempts,
                   isConnected, wsConnected, connectionError, sockTask>>
    /\ UNCHANGED <<imageSlots, imageProgress, imageTaskId, eventVars, editorVars, descVars, pvVars>>
    /\ UNCHANGED timerVars
    /\ UNCHANGED noticeVars
    /\ UNCHANGED launchVars
    /\ UNCHANGED channelVars
    /\ UNCHANGED outlineEditVars

\* The transport of an open socket closes: the 'disconnect' handler runs and
\* socket.io, its backoff reset, starts reconnecting.
TransportClose ==
    /\ sockState = "open"
    /\ OnDisconnectEvent
    /\ sockState' = LibReconnect(0).state
    /\ backoffAttempts' = LibReconnect(0).attempts
    /\ wire' = <<>>
    /\ UNCHANGED <<mounted, taskProp, socketRef, reconnectAttempts, connectionError,
                   sockTask>>
    /\ UNCHANGED <<imageSlots, imageProgress, imageTaskId, eventVars, editorVars, descVars, pvVars>>
    /\ UNCHANGED timerVars
    /\ UNCHANGED noticeVars
    /\ UNCHANGED launchVars
    /\ UNCHANGED channelVars
    /\ UNCHANGED outlineEditVars

NextWS ==
    \/ \E task \in TaskIds \cup {None}, created \in BOOLEAN : Mount(task, created)
    \/ \E task \in TaskIds \cup {None}, created \in BOOLEAN : ChangeTask(task, created)
    \/ Unmount
    \/ \E created \in BOOLEAN : Reconnect(created)
    \/ Disconnect
    \/ ConnectOk
    \/ ConnectError
    \/ ReconnectTimer
    \/ TransportClose

SpecWS == InitStore /\ [][NextWS]_vars

\* C4: once reconnectAttempts.current has reached MAX_RECONNECT_ATTEMPTS, on a
\* socket all of whose failed attempts the counter has counted, the hook shows
\* the permanent-failure notice and the socket makes no further automatic
\* attempt (none in progress, none scheduled).
C4_ReconnectBound ==
    (reconnectAttempts >= MAX_RECONNECT_ATTEMPTS /\ backoffAttempts = reconnectAttempts)
    => /\ connectionError = "failed"
       /\ sockState \notin {"opening", "waiting"}

----------------------------------------------------------------------------
(* The step-derivation effect and the editor's handlers (VocationalEditor) *)

MaxPages == 2

\* A page of the persisted document: the fields the editor reads.
PageKinds ==
    {[title |-> t, description_content |-> d,
      generated_image_url |-> u, generated_image_path |-> g] :
        t \in {None, "T"}, d \in {None, "D"},
        u \in {None, "url"}, g \in {None, "path"}}

\* The order of the pages does not matter to the effect (it only asks whether
\* some page has a field), so documents are listed with their pages in one
\* fixed order of kinds.
KindRank(p) ==
    (IF p.title = None THEN 0 ELSE 8)
    + (IF p.description_content = None THEN 0 ELSE 4)
    + (IF p.generated_image_url = None THEN 0 ELSE 2)
    + (IF p.generated_image_path = None THEN 0 ELSE 1)

Documents ==
    {[loaded |-> TRUE, pages |-> ps] :
        ps \in {s \in UNION {[1..n -> PageKinds] : n \in 0..MaxPages} :
                   \A i \in 1..(Len(s) - 1) : KindRank(s[i]) <= KindRank(s[i + 1])}}

Page(t, d, u) ==
    [title |-> t, description_content |-> d,
     generated_image_url |-> u, generated_image_path |-> None]

\* The documents of a project going through the workflow: empty, outlined,
\* described, with images (and outlined with images, the descriptions skipped).
EditorDocuments ==
    {[loaded |-> TRUE, pages |-> ps] :
        ps \in {<<>>,
                <<Page("T", None, None)>>,
                <<Page("T", "D", None)>>,
                <<Page("T", "D", "url")>>,
                <<Page("T", None, "url")>>}}

vocationalPages(project) ==
    [i \in DOMAIN project.pages |->
        IF project.pages[i].title = None THEN "" ELSE project.pages[i].title]

hasOutline(vps) == Len(vps) > 0 /\ \E i \in DOMAIN vps : vps[i] # ""

hasDescriptionsEvery(project) ==
    \A i \in DOMAIN project.pages : project.pages[i].description_content # None

hasDescriptions(project) ==
    \E i \in DOMAIN project.pages : project.pages[i].description_content # None

hasImages(project) ==
    \E i \in DOMAIN project.pages :
        \/ project.pages[i].generated_image_url # None
        \/ project.pages[i].generated_image_path # None

newCompleted(project) ==
    (IF hasOutline(vocationalPages(project)) THEN {"outline"} ELSE {})
    \cup (IF hasDescriptions(project) THEN {"descriptions"} ELSE {})
    \cup (IF hasImages(project) THEN {"images"} ELSE {})

AutoStepOf(project) ==
    IF ~hasOutline(vocationalPages(project)) THEN "outline"
    ELSE IF ~hasDescriptions(project) THEN "descriptions"
    ELSE IF ~hasImages(project) THEN "images"
    ELSE "export"

isLaterAny(auto, current) == getStepIndex(auto) # getStepIndex(current)

isLater(auto, current) == getStepIndex(auto) > getStepIndex(current)

\* A variant that leaves the image job out.
isAnyTaskRunningButImages ==
    isGeneratingOutline \/ isGeneratingDescriptions \/ isLoadingPreview \/ isExporting

\* isGlobalLoading of the project store is taken to be false.
isAnyTaskRunning ==
    \/ isGeneratingOutline
    \/ isGeneratingDescriptions
    \/ isLoadingPreview
    \/ isGeneratingImages
    \/ isExporting

\* React runs a pending effect before it handles the next event, so every
\* handler below waits for the effect.
Idle == ~effectPending

\* The user's clicks and the effects need the mounted component.
Ready == editorMounted /\ Idle

\* A state setter called by a callback: React ignores it once the component is
\* unmounted.
SetState(old, new) == IF editorMounted THEN new ELSE old

\* syncProject resolved: the project store holds a new project object.
SyncProject(doc) ==
    /\ Ready
    /\ currentProject' = doc
    /\ effectPending' = TRUE
    /\ docChanged' = (doc # currentProject)
    /\ UNCHANGED <<pages, previewUrl, currentStep, completedSteps, autoStep,
                   autoPreviewPending, isLoadingPreview, isGeneratingImages,
                   isExporting, imgPoll, statusRes, stepAdvances>>
    /\ UNCHANGED <<storeVars, eventVars, hookVars, descVars, pvVars>>
    /\ UNCHANGED timerVars
    /\ UNCHANGED noticeVars
    /\ UNCHANGED launchVars
    /\ UNCHANGED channelVars
    /\ UNCHANGED outlineEditVars

\* The effect on [currentProject, setPages, imageSlots.length, imageProgress].
RunDerivation ==
    /\ editorMounted
    /\ effectPending
    /\ effectPending' = FALSE
    /\ docChanged' = FALSE
    /\ IF currentProject.loaded
       THEN /\ pages' = vocationalPages(currentProject)
            /\ completedSteps' = newCompleted(currentProject)
            /\ autoStep' = AutoStepOf(currentProject)
            /\ currentStep' = IF isLater(AutoStepOf(currentProject), currentStep)
                              THEN AutoStepOf(currentProject)
                              ELSE currentStep
       ELSE UNCHANGED <<pages, completedSteps, autoStep, currentStep>>
    /\ UNCHANGED <<currentProject, previewUrl, autoPreviewPending, isLoadingPreview,
                   isGeneratingImages, isExporting, imgPoll, statusRes, stepAdvances>>
    /\ UNCHANGED <<storeVars, eventVars, hookVars, descVars, pvVars>>
    /\ UNCHANGED timerVars
    /\ UNCHANGED noticeVars
    /\ UNCHANGED launchVars
    /\ UNCHANGED channelVars
    /\ UNCHANGED outlineEditVars

isClickable(step) ==
    /\ ~isAnyTaskRunning
    /\ \/ step \in completedSteps
       \/ getStepIndex(step) = 1
       \/ /\ getStepIndex(step) > 1
          /\ stepOrder[getStepIndex(step) - 1] \in completedSteps

\* A click on a step of the step indicator.
NavigateTo(step) ==
    /\ Ready
    /\ isClickable(step)
    /\ currentStep' = step
    /\ UNCHANGED <<currentProject, pages, previewUrl, completedSteps, autoStep,
                   effectPending, docChanged, autoPreviewPending, isLoadingPreview,
                   isGeneratingImages, isExporting, imgPoll, statusRes, stepAdvances>>
    /\ UNCHANGED <<storeVars, eventVars, hookVars, descVars, pvVars>>
    /\ UNCHANGED timerVars
    /\ UNCHANGED noticeVars
    /\ UNCHANGED launchVars
    /\ UNCHANGED channelVars
    /\ UNCHANGED outlineEditVars

\* The "continue" / "skip" button of the descriptions step.
ContinueToImages ==
    /\ Ready
    /\ currentStep = "descriptions"
    /\ ~isAnyTaskRunning
    /\ currentStep' = "images"
    /\ UNCHANGED <<currentProject, pages, previewUrl, completedSteps, autoStep,
                   effectPending, docChanged, autoPreviewPending, isLoadingPreview,
                   isGeneratingImages, isExporting, imgPoll, statusRes, stepAdvances>>
    /\ UNCHANGED <<storeVars, eventVars, hookVars, descVars, pvVars>>
    /\ UNCHANGED timerVars
    /\ UNCHANGED noticeVars
    /\ UNCHANGED launchVars
    /\ UNCHANGED channelVars
    /\ UNCHANGED outlineEditVars

NextDeriver ==
    \/ \E doc \in Documents : SyncProject(doc)
    \/ RunDerivation
    \/ \E step \in WorkflowStep : NavigateTo(step)
    \/ ContinueToImages

SpecDeriver == InitStore /\ [][NextDeriver]_vars

----------------------------------------------------------------------------
(* SpecEditor: the editor's handlers around the step-derivation effect *)

JobStatuses == {"PROCESSING", "COMPLETED", "PARTIAL", "FAILED"}

\* image_slots of a render response is optional.
OptionalSlotLists == {<<>>} \cup {<<list>> : list \in RenderSlotLists}

\* if (response.data.image_slots) setImageSlots(... status: 'pending'); a change
\* of imageSlots.length is a change of the effect's dependencies.
InstallSlots(optList) ==
    IF optList = <<>>
    THEN /\ UNCHANGED imageSlots
         /\ UNCHANGED effectPending
    ELSE /\ imageSlots' = setImageSlots([i \in DOMAIN optList[1] |-> PendingSlot(optList[1][i])])
         /\ effectPending' = (editorMounted /\ Len(optList[1]) # Len(imageSlots))

\* The effect on [pages, previewUrl, ..., isAnyTaskRunning]: an outline without
\* a preview requests one (a pedagogy and a template are selected).
AutoPreviewRequest ==
    /\ Ready
    /\ hasOutline(pages)
    /\ previewUrl = None
    /\ ~isAnyTaskRunning
    /\ ~autoPreviewPending
    /\ autoPreviewPending' = TRUE
    /\ UNCHANGED <<currentProject, pages, previewUrl, currentStep, completedSteps,
                   autoStep, effectPending, docChanged, isLoadingPreview,
                   isGeneratingImages, isExporting, imgPoll, statusRes, stepAdvances>>
    /\ UNCHANGED <<storeVars, eventVars, hookVars, descVars, pvVars>>
    /\ UNCHANGED timerVars
    /\ UNCHANGED noticeVars
    /\ UNCHANGED launchVars
    /\ UNCHANGED channelVars
    /\ UNCHANGED outlineEditVars

\* autoGeneratePreview after its await: the render response, or an error.
AutoPreviewResponse(hasData, optList) ==
    /\ Idle
    /\ autoPreviewPending
    /\ autoPreviewPending' = FALSE
    /\ IF hasData
       THEN /\ previewUrl' = "url"
            /\ InstallSlots(optList)
       ELSE UNCHANGED <<previewUrl, imageSlots, effectPending>>
    /\ UNCHANGED <<currentProject, pages, currentStep, completedSteps, autoStep,
                   docChanged, isLoadingPreview, isGeneratingImages, isExporting,
                   imgPoll, statusRes, stepAdvances>>
    /\ UNCHANGED <<imageProgress, imageTaskId, wsConnected, eventVars, hookVars>>
    /\ UNCHANGED <<descVars, pvVars>>
    /\ UNCHANGED timerVars
    /\ UNCHANGED noticeVars
    /\ UNCHANGED launchVars
    /\ UNCHANGED channelVars
    /\ UNCHANGED outlineEditVars

\* handleGeneratePreview up to its await (the "refresh preview" button).
PreviewRequest ==
    /\ Ready
    /\ previewUrl # None
    /\ ~isAnyTaskRunning
    /\ isLoadingPreview' = TRUE
    /\ UNCHANGED <<currentProject, pages, previewUrl, currentStep, completedSteps,
                   autoStep, effectPending, docChanged, autoPreviewPending,
                   isGeneratingImages, isExporting, imgPoll, statusRes, stepAdvances>>
    /\ UNCHANGED <<storeVars, eventVars, hookVars, descVars, pvVars>>
    /\ UNCHANGED timerVars
    /\ UNCHANGED noticeVars
    /\ UNCHANGED launchVars
    /\ UNCHANGED channelVars
    /\ UNCHANGED outlineEditVars

\* handleGeneratePreview after its await.
PreviewResponse(hasData, optList) ==
    /\ Idle
    /\ isLoadingPreview
    /\ isLoadingPreview' = SetState(isLoadingPreview, FALSE)
    /\ IF hasData
       THEN /\ previewUrl' = "url"
            /\ InstallSlots(optList)
            /\ completedSteps' = SetState(completedSteps, completedSteps \cup {"preview"})
            /\ currentStep' = SetState(currentStep, "images")
       ELSE UNCHANGED <<previewUrl, imageSlots, effectPending, completedSteps, currentStep>>
    /\ UNCHANGED <<currentProject, pages, autoStep, docChanged, autoPreviewPending,
                   isGeneratingImages, isExporting, imgPoll, statusRes, stepAdvances>>
    /\ UNCHANGED <<imageProgress, imageTaskId, wsConnected, eventVars, hookVars>>
    /\ UNCHANGED <<descVars, pvVars>>
    /\ UNCHANGED timerVars
    /\ UNCHANGED noticeVars
    /\ UNCHANGED launchVars
    /\ UNCHANGED channelVars
    /\ UNCHANGED outlineEditVars

\* show({ message: '请先生成预览', type: 'error' })
RenderFirstNotice == Notice("error", "render_first", FALSE)

rejectsLaunchNever(slots) == FALSE

\* if (!projectId || imageSlots.length === 0) of handleGenerateImages (projectId
\* is set).
rejectsLaunch(slots) == Len(slots) = 0

\* handleGenerateImages up to its return or first await: the early return with
\* a notice, or the launch.
handleGenerateImages ==
    IF rejectsLaunch(imageSlots)
    THEN /\ launchNotice' = RenderFirstNotice
         /\ UNCHANGED <<isGeneratingImages, imgPoll, statusRes, stepAdvances,
                        imgFailNotices>>
    ELSE /\ launchNotice' = NoNotice
         /\ isGeneratingImages' = TRUE
         /\ imgPoll' = "launching"
         /\ statusRes' = NoStatus
         /\ stepAdvances' = 0
         /\ imgFailNotices' = 0

\* The button of the images step (enabled with slots and no task running).
ImagesLaunch ==
    /\ Ready
    /\ currentStep = "images"
    /\ ~isAnyTaskRunning
    /\ Len(imageSlots) # 0
    /\ handleGenerateImages
    /\ UNCHANGED <<currentProject, pages, previewUrl, currentStep, completedSteps,
                   autoStep, effectPending, docChanged, autoPreviewPending,
                   isLoadingPreview, isExporting>>
    /\ UNCHANGED <<storeVars, eventVars, hookVars, descVars, pvVars>>
    /\ UNCHANGED timerVars
    /\ UNCHANGED <<pollNotice, pvSlots, pvNotice, pvLaunchNotice, pvFailNotices>>
    /\ UNCHANGED launchVars
    /\ UNCHANGED channelVars
    /\ UNCHANGED outlineEditVars

\* handleGenerateImages entered while the store holds no slot (the button is
\* disabled then; the handler has its own test).
ImagesLaunchEmpty ==
    /\ Ready
    /\ currentStep = "images"
    /\ ~isAnyTaskRunning
    /\ Len(imageSlots) = 0
    /\ handleGenerateImages
    /\ UNCHANGED <<currentProject, pages, previewUrl, currentStep, completedSteps,
                   autoStep, effectPending, docChanged, autoPreviewPending,
                   isLoadingPreview, isExporting>>
    /\ UNCHANGED <<storeVars, eventVars, hookVars, descVars, pvVars>>
    /\ UNCHANGED timerVars
    /\ UNCHANGED <<pollNotice, pvSlots, pvNotice, pvLaunchNotice, pvFailNotices>>
    /\ UNCHANGED launchVars
    /\ UNCHANGED channelVars
    /\ UNCHANGED outlineEditVars

\* handleGenerateImages after its await: a task id (pollImageStatus is called),
\* a response without task id, or an error.
ImagesLaunchResponse(outcome) ==
    /\ Idle
    /\ imgPoll = "launching"
    /\ imgPoll' = IF outcome = "task" THEN "inflight" ELSE "none"
    /\ isGeneratingImages' = SetState(isGeneratingImages, outcome # "error")
    /\ UNCHANGED <<currentProject, pages, previewUrl, currentStep, completedSteps,
                   autoStep, effectPending, docChanged, autoPreviewPending,
                   isLoadingPreview, isExporting, statusRes, stepAdvances>>
    /\ UNCHANGED <<storeVars, eventVars, hookVars, descVars, pvVars>>
    /\ UNCHANGED timerVars
    /\ UNCHANGED noticeVars
    /\ UNCHANGED launchVars
    /\ UNCHANGED channelVars
    /\ UNCHANGED outlineEditVars

\* setTimeout(pollImageStatus, 3000) / setTimeout(pollImageStatus, 5000)
ImagePollDelay == 3000
ImageRetryDelay == 5000

\* setTimeout(pollTaskStatus, 2000) / setTimeout(pollTaskStatus, 3000)
TaskPollDelay == 2000
TaskRetryDelay == 3000

\* setInterval(async () => ..., 2000)
PvPollInterval == 2000

\* show(...) of pollImageStatus: '配图生成完成！可以导出课件了' (success) in the
\* COMPLETED / PARTIAL branch, the error in the FAILED branch.
imageStatusNotice(status, last) ==
    IF status \in {"COMPLETED", "PARTIAL"} THEN Notice("success", "images_done", FALSE)
    ELSE IF status = "FAILED" THEN Notice("error", "images_failed", FALSE)
    ELSE last

\* show(...) of pollTaskStatus: '页面描述生成完成！可以继续生成配图' (success) at
\* the end of the COMPLETED / PARTIAL branch, the error in the FAILED branch.
taskStatusNotice(status, last) ==
    IF status \in {"COMPLETED", "PARTIAL"} THEN Notice("success", "descriptions_done", FALSE)
    ELSE IF status = "FAILED" THEN Notice("error", "descriptions_failed", FALSE)
    ELSE last

\* show(...) of the interval callback of HTMLPreview: '所有配图生成完成'
\* (success), '配图生成部分完成，${progress.failed} 张失败' (warning),
\* '配图生成失败' (error).
previewStatusNotice(status, last) ==
    IF status = "COMPLETED" THEN Notice("success", "all_done", FALSE)
    ELSE IF status = "PARTIAL" THEN Notice("warning", "partly_done", TRUE)
    ELSE IF status = "FAILED" THEN Notice("error", "images_failed", FALSE)
    ELSE last

reschedulesAlways(status) == TRUE

\* The last branch of pollImageStatus: neither COMPLETED / PARTIAL nor FAILED.
reschedules(status) == status \notin {"COMPLETED", "PARTIAL", "FAILED"}

\* pollImageStatus after its await, with the status response: its status, its
\* optional progress and its optional per-slot result map.
pollImageStatus(status, progress, result) ==
    /\ statusRes' = [status |-> status, progress |-> progress, result |-> result]
    /\ IF status \in {"COMPLETED", "PARTIAL"}
       THEN /\ completedSteps' = SetState(completedSteps, completedSteps \cup {"images"})
            /\ currentStep' = SetState(currentStep, "export")
            /\ stepAdvances' = SetState(stepAdvances, stepAdvances + 1)
            /\ isGeneratingImages' = SetState(isGeneratingImages, FALSE)
       ELSE /\ UNCHANGED <<completedSteps, currentStep, stepAdvances>>
            /\ isGeneratingImages' = SetState(isGeneratingImages, status # "FAILED")
    /\ imgPoll' = IF reschedules(status) THEN "timer" ELSE "none"
    /\ imgDelay' = IF reschedules(status) THEN ImagePollDelay ELSE 0
    /\ imgTimers' = IF reschedules(status) THEN imgTimers + 1 ELSE imgTimers
    /\ UNCHANGED <<staleSockets, pvTimers>>
    /\ pollNotice' = imageStatusNotice(status, pollNotice)
    /\ imgFailNotices' = IF status = "FAILED" THEN imgFailNotices + 1 ELSE imgFailNotices
    /\ UNCHANGED <<launchNotice, pvSlots, pvNotice, pvLaunchNotice, pvFailNotices>>
    /\ UNCHANGED <<currentProject, pages, previewUrl, autoStep, effectPending,
                   docChanged, autoPreviewPending, isLoadingPreview, isExporting>>
    /\ UNCHANGED <<storeVars, eventVars, hookVars, descVars, pvVars>>
    /\ UNCHANGED <<descDelay, pvDelay, pvLast>>
    /\ UNCHANGED launchVars

\* A status response without a result map.
PollResponse(status, progress) ==
    /\ Idle
    /\ imgPoll = "inflight"
    /\ pollImageStatus(status, progress, NoResult)
    /\ UNCHANGED outlineEditVars

\* A status response with the result of one slot.
PollResultResponse(status, progress, entry) ==
    /\ Idle
    /\ imgPoll = "inflight"
    /\ pollImageStatus(status, progress, <<entry>>)
    /\ UNCHANGED outlineEditVars

\* pollImageStatus: the status request failed (catch).
PollError ==
    /\ Idle
    /\ imgPoll = "inflight"
    /\ statusRes' = [status |-> "error", progress |-> NoProgress, result |-> NoResult]
    /\ imgPoll' = "timer"
    /\ imgDelay' = ImageRetryDelay
    /\ imgTimers' = imgTimers + 1
    /\ UNCHANGED <<staleSockets, pvTimers>>
    /\ UNCHANGED <<descDelay, pvDelay, pvLast>>
    /\ UNCHANGED <<currentProject, pages, previewUrl, currentStep, completedSteps,
                   autoStep, effectPending, docChanged, autoPreviewPending,
                   isLoadingPreview, isGeneratingImages, isExporting, stepAdvances>>
    /\ UNCHANGED <<storeVars, eventVars, hookVars, descVars, pvVars>>
    /\ UNCHANGED noticeVars
    /\ UNCHANGED launchVars
    /\ UNCHANGED outlineEditVars

\* setTimeout(pollImageStatus, ...) fires: the next status request is sent.
PollTimer ==
    /\ Idle
    /\ imgPoll = "timer"
    /\ imgPoll' = "inflight"
    /\ imgDelay' = 0
    /\ imgTimers' = imgTimers - 1
    /\ UNCHANGED <<staleSockets, pvTimers>>
    /\ UNCHANGED <<descDelay, pvDelay, pvLast>>
    /\ UNCHANGED <<currentProject, pages, previewUrl, currentStep, completedSteps,
                   autoStep, effectPending, docChanged, autoPreviewPending,
                   isLoadingPreview, isGeneratingImages, isExporting, statusRes,
                   stepAdvances>>
    /\ UNCHANGED <<storeVars, eventVars, hookVars, descVars, pvVars>>
    /\ UNCHANGED noticeVars
    /\ UNCHANGED launchVars
    /\ UNCHANGED outlineEditVars

\* handleExportPptx up to its await (the button of the export step).
ExportRequest ==
    /\ Ready
    /\ currentStep = "export"
    /\ ~isAnyTaskRunning
    /\ isExporting' = TRUE
    /\ UNCHANGED <<currentProject, pages, previewUrl, currentStep, completedSteps,
                   autoStep, effectPending, docChanged, autoPreviewPending,
                   isLoadingPreview, isGeneratingImages, imgPoll, statusRes,
                   stepAdvances>>
    /\ UNCHANGED <<storeVars, eventVars, hookVars, descVars, pvVars>>
    /\ UNCHANGED timerVars
    /\ UNCHANGED noticeVars
    /\ UNCHANGED launchVars
    /\ UNCHANGED channelVars
    /\ UNCHANGED outlineEditVars

\* handleExportPptx after its await: a download url, or none / an error.
ExportResponse(hasUrl) ==
    /\ Idle
    /\ isExporting
    /\ isExporting' = SetState(isExporting, FALSE)
    /\ completedSteps' = SetState(completedSteps,
                                  IF hasUrl THEN completedSteps \cup {"export"}
                                  ELSE completedSteps)
    /\ UNCHANGED <<currentProject, pages, previewUrl, currentStep, autoStep,
                   effectPending, docChanged, autoPreviewPending, isLoadingPreview,
                   isGeneratingImages, imgPoll, statusRes, stepAdvances>>
    /\ UNCHANGED <<storeVars, eventVars, hookVars, descVars, pvVars>>
    /\ UNCHANGED timerVars
    /\ UNCHANGED noticeVars
    /\ UNCHANGED launchVars
    /\ UNCHANGED channelVars
    /\ UNCHANGED outlineEditVars

NextEditor ==
    \/ \E doc \in EditorDocuments : SyncProject(doc)
    \/ RunDerivation
    \/ \E step \in WorkflowStep : NavigateTo(step)
    \/ ContinueToImages
    \/ AutoPreviewRequest
    \/ \E hasData \in BOOLEAN, optList \in OptionalSlotLists : AutoPreviewResponse(hasData, optList)
    \/ PreviewRequest
    \/ \E hasData \in BOOLEAN, optList \in OptionalSlotLists : PreviewResponse(hasData, optList)
    \/ ImagesLaunch
    \/ \E outcome \in {"task", "notask", "error"} : ImagesLaunchResponse(outcome)
    \/ \E status \in JobStatuses : PollResponse(status, NoProgress)
    \/ PollError
    \/ PollTimer
    \/ ExportRequest
    \/ \E hasUrl \in BOOLEAN : ExportResponse(hasUrl)

SpecEditor == InitStore /\ [][NextEditor]_vars

----------------------------------------------------------------------------
(* The description job and the teardown of the editor *)

\* handleGenerateDescriptions up to its await (the button of the descriptions
\* step).
DescLaunch ==
    /\ Ready
    /\ currentStep = "descriptions"
    /\ ~isAnyTaskRunning
    /\ hasOutline(pages)
    /\ isGeneratingDescriptions' = TRUE
    /\ descPoll' = "launching"
    /\ descStatus' = "none"
    /\ UNCHANGED <<editorMounted, editorVars, storeVars, eventVars, hookVars, pvVars>>
    /\ UNCHANGED timerVars
    /\ UNCHANGED noticeVars
    /\ UNCHANGED launchVars
    /\ UNCHANGED channelVars
    /\ UNCHANGED outlineEditVars

\* handleGenerateDescriptions after its await: a task id (pollTaskStatus is
\* called), a response without task id, or an error.
DescLaunchResponse(outcome) ==
    /\ Idle
    /\ descPoll = "launching"
    /\ descPoll' = IF outcome = "task" THEN "inflight" ELSE "none"
    /\ isGeneratingDescriptions' = SetState(isGeneratingDescriptions, outcome # "error")
    /\ UNCHANGED <<editorMounted, descStatus, editorVars, storeVars, eventVars,
                   hookVars, pvVars>>
    /\ UNCHANGED timerVars
    /\ UNCHANGED noticeVars
    /\ UNCHANGED launchVars
    /\ UNCHANGED channelVars
    /\ UNCHANGED outlineEditVars

\* pollTaskStatus after the await of the status request. On COMPLETED / PARTIAL
\* it goes on to await syncProject.
DescPollResponse(status) ==
    /\ Idle
    /\ descPoll = "inflight"
    /\ descStatus' = status
    /\ completedSteps' = IF status \in {"COMPLETED", "PARTIAL"}
                         THEN SetState(completedSteps, completedSteps \cup {"descriptions"})
                         ELSE completedSteps
    /\ isGeneratingDescriptions' = IF status = "FAILED"
                                   THEN SetState(isGeneratingDescriptions, FALSE)
                                   ELSE isGeneratingDescriptions
    /\ descPoll' = IF status \in {"COMPLETED", "PARTIAL"} THEN "syncing"
                   ELSE IF reschedules(status) THEN "timer"
                   ELSE "none"
    /\ descDelay' = IF reschedules(status) THEN TaskPollDelay ELSE 0
    /\ pollNotice' = IF status = "FAILED" THEN taskStatusNotice(status, pollNotice)
                     ELSE pollNotice
    /\ UNCHANGED <<launchNotice, imgFailNotices, pvSlots, pvNotice, pvLaunchNotice,
                   pvFailNotices>>
    /\ UNCHANGED <<imgDelay, pvDelay, pvLast>>
    /\ UNCHANGED <<currentProject, pages, previewUrl, currentStep, autoStep,
                   effectPending, docChanged, autoPreviewPending, isLoadingPreview,
                   isGeneratingImages, isExporting, imgPoll, statusRes, stepAdvances>>
    /\ UNCHANGED <<editorMounted, storeVars, eventVars, hookVars, pvVars>>
    /\ UNCHANGED launchVars
    /\ UNCHANGED channelVars
    /\ UNCHANGED outlineEditVars

\* pollTaskStatus: the status request failed (catch).
DescPollError ==
    /\ Idle
    /\ descPoll = "inflight"
    /\ descPoll' = "timer"
    /\ descStatus' = "error"
    /\ descDelay' = TaskRetryDelay
    /\ UNCHANGED <<imgDelay, pvDelay, pvLast>>
    /\ UNCHANGED <<editorMounted, isGeneratingDescriptions, editorVars, storeVars,
                   eventVars, hookVars, pvVars>>
    /\ UNCHANGED noticeVars
    /\ UNCHANGED launchVars
    /\ UNCHANGED channelVars
    /\ UNCHANGED outlineEditVars

\* setTimeout(pollTaskStatus, ...) fires: the next status request is sent.
DescPollTimer ==
    /\ Idle
    /\ descPoll = "timer"
    /\ descPoll' = "inflight"
    /\ descDelay' = 0
    /\ UNCHANGED <<imgDelay, pvDelay, pvLast>>
    /\ UNCHANGED <<editorMounted, isGeneratingDescriptions, descStatus, editorVars,
                   storeVars, eventVars, hookVars, pvVars>>
    /\ UNCHANGED noticeVars
    /\ UNCHANGED launchVars
    /\ UNCHANGED channelVars
    /\ UNCHANGED outlineEditVars

\* pollTaskStatus after await syncProject(projectId) (which resolves with the
\* project store updated); it goes on to await autoGeneratePreview().
DescSynced(doc) ==
    /\ Idle
    /\ descPoll = "syncing"
    /\ descPoll' = "previewing"
    /\ currentProject' = doc
    /\ effectPending' = editorMounted
    /\ docChanged' = (editorMounted /\ doc # currentProject)
    /\ UNCHANGED <<pages, previewUrl, currentStep, completedSteps, autoStep,
                   autoPreviewPending, isLoadingPreview, isGeneratingImages,
                   isExporting, imgPoll, statusRes, stepAdvances>>
    /\ UNCHANGED <<editorMounted, isGeneratingDescriptions, descStatus, storeVars,
                   eventVars, hookVars, pvVars>>
    /\ UNCHANGED timerVars
    /\ UNCHANGED noticeVars
    /\ UNCHANGED launchVars
    /\ UNCHANGED channelVars
    /\ UNCHANGED outlineEditVars

\* pollTaskStatus after await autoGeneratePreview() (the render response or an
\* error, which autoGeneratePreview catches): the step becomes images.
DescPreviewed(hasData, optList) ==
    /\ Idle
    /\ descPoll = "previewing"
    /\ descPoll' = "none"
    /\ IF hasData
       THEN /\ previewUrl' = "url"
            /\ InstallSlots(optList)
       ELSE UNCHANGED <<previewUrl, imageSlots, effectPending>>
    /\ currentStep' = SetState(currentStep, "images")
    /\ isGeneratingDescriptions' = SetState(isGeneratingDescriptions, FALSE)
    /\ pollNotice' = taskStatusNotice(descStatus, pollNotice)
    /\ UNCHANGED <<launchNotice, imgFailNotices, pvSlots, pvNotice, pvLaunchNotice,
                   pvFailNotices>>
    /\ UNCHANGED <<currentProject, pages, completedSteps, autoStep, docChanged,
                   autoPreviewPending, isLoadingPreview, isGeneratingImages,
                   isExporting, imgPoll, statusRes, stepAdvances>>
    /\ UNCHANGED <<editorMounted, descStatus, imageProgress, imageTaskId, wsConnected,
                   eventVars, hookVars, pvVars>>
    /\ UNCHANGED timerVars
    /\ UNCHANGED launchVars
    /\ UNCHANGED channelVars
    /\ UNCHANGED outlineEditVars

\* The user leaves the editor: the component unmounts. No cleanup touches the
\* timers of pollTaskStatus / pollImageStatus; pending effects do not run.
UnmountEditor ==
    /\ editorMounted
    /\ editorMounted' = FALSE
    /\ effectPending' = FALSE
    /\ docChanged' = FALSE
    /\ UNCHANGED <<currentProject, pages, previewUrl, currentStep, completedSteps,
                   autoStep, autoPreviewPending, isLoadingPreview, isGeneratingImages,
                   isExporting, imgPoll, statusRes, stepAdvances>>
    /\ UNCHANGED <<isGeneratingDescriptions, descPoll, descStatus, storeVars,
                   eventVars, hookVars, pvVars>>
    /\ UNCHANGED timerVars
    /\ UNCHANGED noticeVars
    /\ UNCHANGED launchVars
    /\ UNCHANGED channelVars
    /\ UNCHANGED outlineEditVars

----------------------------------------------------------------------------
(* The polling loop of the HTMLPreview component (setInterval) *)

\* Bound on the status requests of the interval callback that are in flight at
\* once (the interval fires whether or not the previous request has returned).
MaxInflight == 2

\* A variant that stops the interval on COMPLETED only.
isTerminalCompletedOnly(status) == status = "COMPLETED"

\* status === 'COMPLETED' || status === 'PARTIAL' || status === 'FAILED'
isTerminal(status) == status \in {"COMPLETED", "PARTIAL", "FAILED"}

\* if (pollingIntervalRef.current) clearInterval(pollingIntervalRef.current):
\* the running timers after it, given whether the ref holds one.
clearInterval(held, timers) == IF held THEN timers - 1 ELSE timers

\* handleRender of HTMLPreview: a render result arrives, with or without image
\* slots.
PvRender(slots) ==
    /\ pvMounted
    /\ pvSlots' = slots
    /\ UNCHANGED <<pollNotice, launchNotice, imgFailNotices, pvNotice, pvLaunchNotice,
                   pvFailNotices>>
    /\ UNCHANGED <<storeVars, eventVars, hookVars, editorVars, descVars, pvVars,
                   timerVars>>
    /\ UNCHANGED launchVars
    /\ UNCHANGED channelVars
    /\ UNCHANGED outlineEditVars

\* show({ message: '没有需要生成的图片插槽', type: 'info' })
NoSlotsNotice == Notice("info", "no_slots", FALSE)

\* if (!renderResult || renderResult.image_slots.length === 0)
pvRejectsLaunch(slots) == slots # "some"

\* handleGenerateImages of HTMLPreview up to its return or its await.
pvHandleGenerateImages ==
    IF pvRejectsLaunch(pvSlots)
    THEN /\ pvLaunchNotice' = NoSlotsNotice
         /\ UNCHANGED <<pvGenerating, pvLaunch>>
    ELSE /\ pvLaunchNotice' = NoNotice
         /\ pvGenerating' = TRUE
         /\ pvLaunch' = TRUE

\* The button of HTMLPreview (shown with a render result, enabled with slots
\* while isGenerating is false).
PvGenerate ==
    /\ pvMounted
    /\ ~pvGenerating
    /\ pvSlots = "some"
    /\ pvHandleGenerateImages
    /\ UNCHANGED <<pvMounted, pvInterval, pvInflight, pvDone>>
    /\ UNCHANGED <<storeVars, eventVars, hookVars, editorVars, descVars>>
    /\ UNCHANGED timerVars
    /\ UNCHANGED <<pollNotice, launchNotice, imgFailNotices, pvSlots, pvNotice,
                   pvFailNotices>>
    /\ UNCHANGED launchVars
    /\ UNCHANGED channelVars
    /\ UNCHANGED outlineEditVars

\* handleGenerateImages of HTMLPreview entered without a render result or with
\* one that has no slot (no button is enabled then; the handler has its own
\* test).
PvGenerateEmpty ==
    /\ pvMounted
    /\ ~pvGenerating
    /\ pvSlots # "some"
    /\ pvHandleGenerateImages
    /\ UNCHANGED <<pvMounted, pvInterval, pvInflight, pvDone>>
    /\ UNCHANGED <<storeVars, eventVars, hookVars, editorVars, descVars>>
    /\ UNCHANGED timerVars
    /\ UNCHANGED <<pollNotice, launchNotice, imgFailNotices, pvSlots, pvNotice,
                   pvFailNotices>>
    /\ UNCHANGED launchVars
    /\ UNCHANGED channelVars
    /\ UNCHANGED outlineEditVars

\* handleGenerateImages of HTMLPreview after its await: startPolling(task_id)
\* replaces the interval, or the error branch clears isGenerating.
PvLaunchResponse(ok) ==
    /\ pvLaunch
    /\ pvLaunch' = FALSE
    /\ IF ok
       THEN /\ pvInterval' = TRUE
            /\ pvDelay' = PvPollInterval
            /\ pvTimers' = clearInterval(pvInterval, pvTimers) + 1
            /\ pvDone' = FALSE
            /\ UNCHANGED pvGenerating
       ELSE /\ pvGenerating' = IF pvMounted THEN FALSE ELSE pvGenerating
            /\ UNCHANGED <<pvInterval, pvDelay, pvDone, pvTimers>>
    /\ UNCHANGED <<staleSockets, imgTimers>>
    /\ UNCHANGED <<imgDelay, descDelay, pvLast>>
    /\ pvFailNotices' = IF ok THEN 0 ELSE pvFailNotices
    /\ UNCHANGED <<pollNotice, launchNotice, imgFailNotices, pvSlots, pvNotice,
                   pvLaunchNotice>>
    /\ UNCHANGED <<pvMounted, pvInflight>>
    /\ UNCHANGED <<storeVars, eventVars, hookVars, editorVars, descVars>>
    /\ UNCHANGED launchVars
    /\ UNCHANGED outlineEditVars

\* The interval fires: its callback sends a status request.
PvTick ==
    /\ pvInterval
    /\ pvInflight < MaxInflight
    /\ pvInflight' = pvInflight + 1
    /\ UNCHANGED <<pvMounted, pvGenerating, pvLaunch, pvInterval, pvDone>>
    /\ UNCHANGED <<storeVars, eventVars, hookVars, editorVars, descVars>>
    /\ UNCHANGED timerVars
    /\ UNCHANGED noticeVars
    /\ UNCHANGED launchVars
    /\ UNCHANGED channelVars
    /\ UNCHANGED outlineEditVars

\* The interval callback after its await: a response (success or not) with a
\* status. A terminal status clears the interval in pollingIntervalRef. pvDone
\* records that a response of a running loop reported the job as over.
PvResponse(success, status) ==
    /\ pvInflight > 0
    /\ pvInflight' = pvInflight - 1
    /\ IF success /\ isTerminal(status)
       THEN /\ pvInterval' = FALSE
            /\ pvDelay' = 0
            /\ pvTimers' = clearInterval(pvInterval, pvTimers)
            /\ pvGenerating' = IF pvMounted THEN FALSE ELSE pvGenerating
       ELSE UNCHANGED <<pvInterval, pvDelay, pvGenerating, pvTimers>>
    /\ UNCHANGED <<staleSockets, imgTimers>>
    /\ pvLast' = "response"
    /\ pvNotice' = IF success THEN previewStatusNotice(status, pvNotice) ELSE pvNotice
    /\ pvFailNotices' = IF success /\ status = "FAILED" THEN pvFailNotices + 1
                        ELSE pvFailNotices
    /\ UNCHANGED <<pollNotice, launchNotice, imgFailNotices, pvSlots, pvLaunchNotice>>
    /\ UNCHANGED <<imgDelay, descDelay>>
    /\ pvDone' = (pvDone \/ (pvInterval /\ success /\ status # "PROCESSING"))
    /\ UNCHANGED <<pvMounted, pvLaunch>>
    /\ UNCHANGED <<storeVars, eventVars, hookVars, editorVars, descVars>>
    /\ UNCHANGED launchVars
    /\ UNCHANGED outlineEditVars

\* The interval callback: the status request failed (catch).
PvError ==
    /\ pvInflight > 0
    /\ pvInflight' = pvInflight - 1
    /\ pvLast' = "error"
    /\ UNCHANGED <<imgDelay, descDelay, pvDelay>>
    /\ UNCHANGED <<pvMounted, pvGenerating, pvLaunch, pvInterval, pvDone>>
    /\ UNCHANGED <<storeVars, eventVars, hookVars, editorVars, descVars>>
    /\ UNCHANGED noticeVars
    /\ UNCHANGED launchVars
    /\ UNCHANGED channelVars
    /\ UNCHANGED outlineEditVars

\* HTMLPreview unmounts: the cleanup clears the interval in pollingIntervalRef.
PvUnmount ==
    /\ pvMounted
    /\ pvMounted' = FALSE
    /\ pvInterval' = FALSE
    /\ pvDelay' = 0
    /\ pvTimers' = clearInterval(pvInterval, pvTimers)
    /\ UNCHANGED <<staleSockets, imgTimers>>
    /\ UNCHANGED <<imgDelay, descDelay, pvLast>>
    /\ UNCHANGED <<pvGenerating, pvLaunch, pvInflight, pvDone>>
    /\ UNCHANGED <<storeVars, eventVars, hookVars, editorVars, descVars>>
    /\ UNCHANGED noticeVars
    /\ UNCHANGED launchVars
    /\ UNCHANGED outlineEditVars

----------------------------------------------------------------------------
(* SpecJob: an image job watched by pollImageStatus and by the push channel *)

\* The job of the scenario: 5 slots, of which 3 complete and 1 fails.
JobSnapshots ==
    {[total |-> 5, completed |-> 3, failed |-> 0],
     [total |-> 5, completed |-> 3, failed |-> 1]}

JobReports == {NoProgress} \cup {<<p>> : p \in JobSnapshots}

JobDocuments == {doc \in EditorDocuments : AutoStepOf(doc) = "images"}

JobSlotLists == {<<list>> : list \in {l \in RenderSlotLists : Len(l) > 0}}

\* The messages the server pushes about the job.
JobEvents ==
    {Msg("slot_started", "s1", None, NoProgress)}
    \cup {Msg("slot_completed", "s1", "img1", pr) : pr \in JobReports}
    \cup {Msg("slot_failed", "s2", None, pr) : pr \in JobReports}
    \cup {Msg("task_completed", None, None, pr) : pr \in JobReports}

\* The handlers that call updateImageProgress set a new imageProgress object,
\* a change of the effect's dependencies.
TouchesProgress(data) ==
    /\ data.type \in {"slot_completed", "slot_failed", "task_completed"}
    /\ data.progress # NoProgress

\* The server has created the task: it answers status requests and pushes events.
TaskCreated == imgPoll \in {"inflight", "timer"} \/ statusRes # NoStatus

\* A message of the job arrives on the open socket and its handler runs.
Push(data) ==
    /\ Idle
    /\ sockState = "open"
    /\ TaskCreated
    /\ Apply(Dispatch(Store, data))
    /\ Record(data)
    /\ effectPending' = TouchesProgress(data)
    /\ UNCHANGED <<currentProject, pages, previewUrl, currentStep, completedSteps,
                   autoStep, docChanged, autoPreviewPending, isLoadingPreview,
                   isGeneratingImages, isExporting, imgPoll, statusRes, stepAdvances>>
    /\ UNCHANGED <<wsConnected, hookVars, descVars, pvVars>>
    /\ UNCHANGED timerVars
    /\ UNCHANGED noticeVars
    /\ UNCHANGED launchVars
    /\ UNCHANGED channelVars
    /\ UNCHANGED outlineEditVars

NextJob ==
    \/ \E doc \in JobDocuments : SyncProject(doc)
    \/ RunDerivation
    \/ AutoPreviewRequest
    \/ \E optList \in JobSlotLists : AutoPreviewResponse(TRUE, optList)
    \/ ImagesLaunch
    \/ ImagesLaunchResponse("task")
    \/ \E status \in JobStatuses, progress \in JobReports : PollResponse(status, progress)
    \/ PollError
    \/ PollTimer
    \/ \E data \in JobEvents : Push(data)
    \/ Mount("t1", TRUE)
    \/ ConnectOk
    \/ TransportClose
    \/ ReconnectTimer

SpecJob == InitStore /\ [][NextJob]_vars

----------------------------------------------------------------------------
(* SpecPolling: the three polling loops and the teardown of their components *)

PollDocuments == {doc \in EditorDocuments : AutoStepOf(doc) \in {"descriptions", "images"}}

NextPolling ==
    \/ \E doc \in PollDocuments : SyncProject(doc)
    \/ RunDerivation
    \/ AutoPreviewRequest
    \/ \E optList \in JobSlotLists : AutoPreviewResponse(TRUE, optList)
    \/ ImagesLaunch
    \/ \E outcome \in {"task", "notask", "error"} : ImagesLaunchResponse(outcome)
    \/ \E status \in JobStatuses : PollResponse(status, NoProgress)
    \/ PollError
    \/ PollTimer
    \/ DescLaunch
    \/ \E outcome \in {"task", "notask", "error"} : DescLaunchResponse(outcome)
    \/ \E status \in JobStatuses : DescPollResponse(status)
    \/ DescPollError
    \/ DescPollTimer
    \/ \E doc \in PollDocuments : DescSynced(doc)
    \/ \E hasData \in BOOLEAN, optList \in JobSlotLists : DescPreviewed(hasData, optList)
    \/ UnmountEditor
    \/ ImagesLaunchEmpty
    \/ \E slots \in {"empty", "some"} : PvRender(slots)
    \/ PvGenerate
    \/ PvGenerateEmpty
    \/ \E ok \in BOOLEAN : PvLaunchResponse(ok)
    \/ PvTick
    \/ \E success \in BOOLEAN, status \in JobStatuses : PvResponse(success, status)
    \/ PvError
    \/ PvUnmount

\* VocationalEditor and HTMLPreview are separate components: neither renders the
\* other and they share no state, so the page shows one of them and the loops of
\* each are explored with the other not rendered.
InitPolling ==
    /\ imageSlots = <<>>
    /\ imageProgress = initialProgress
    /\ imageTaskId = None
    /\ wsConnected = FALSE
    /\ lastEvent = NoEvent
    /\ repeated = FALSE
    /\ InitHook
    /\ InitWorkflow
    /\ editorMounted \in BOOLEAN
    /\ pvMounted = ~editorMounted

SpecPolling == InitPolling /\ [][NextPolling]_vars

\* The timers fire, the effect runs, and the server eventually answers a status
\* request with a terminal status.
FairPolling ==
    /\ WF_vars(RunDerivation)
    /\ SF_vars(PollTimer)
    /\ SF_vars(\E status \in {"COMPLETED", "PARTIAL", "FAILED"} : PollResponse(status, NoProgress))
    /\ SF_vars(DescPollTimer)
    /\ SF_vars(\E status \in {"COMPLETED", "PARTIAL", "FAILED"} : DescPollResponse(status))
    /\ WF_vars(PvTick)
    /\ SF_vars(\E status \in {"COMPLETED", "PARTIAL", "FAILED"} : PvResponse(TRUE, status))

SpecPollingFair == SpecPolling /\ FairPolling

----------------------------------------------------------------------------
(* The outline job, the per-slot regenerate, and SpecLaunch: every launcher *)

\* The project after an outline was generated: pages with titles and nothing
\* else.
OutlineDocuments == {doc \in EditorDocuments : AutoStepOf(doc) = "descriptions"}

\* handleGenerateOutline up to its await (the button of the outline step and
\* the "regenerate outline" buttons, all disabled while a task is running).
OutlineLaunch ==
    /\ Ready
    /\ ~isAnyTaskRunning
    /\ isGeneratingOutline' = TRUE
    /\ outlinePos' = "generating"
    /\ UNCHANGED regeneratingSlotId
    /\ UNCHANGED <<storeVars, eventVars, hookVars, editorVars, descVars, pvVars,
                   timerVars, noticeVars>>
    /\ UNCHANGED channelVars
    /\ UNCHANGED outlineEditVars

\* handleGenerateOutline after await api.generateOutline: pages (setPages, the
\* outline step completed, then await syncProject), or no pages / an error
\* (finally).
OutlineResponse(outcome, doc) ==
    /\ Idle
    /\ outlinePos = "generating"
    /\ IF outcome = "pages"
       THEN /\ pages' = vocationalPages(doc)
            /\ completedSteps' = SetState(completedSteps, completedSteps \cup {"outline"})
            /\ outlinePos' = "syncing"
            /\ UNCHANGED isGeneratingOutline
       ELSE /\ outlinePos' = "none"
            /\ isGeneratingOutline' = SetState(isGeneratingOutline, FALSE)
            /\ UNCHANGED <<pages, completedSteps>>
    /\ UNCHANGED <<currentProject, previewUrl, currentStep, autoStep, effectPending,
                   docChanged, autoPreviewPending, isLoadingPreview, isGeneratingImages,
                   isExporting, imgPoll, statusRes, stepAdvances>>
    /\ UNCHANGED regeneratingSlotId
    /\ UNCHANGED <<storeVars, eventVars, hookVars, descVars, pvVars, timerVars,
                   noticeVars>>
    /\ UNCHANGED channelVars
    /\ UNCHANGED outlineEditVars

\* handleGenerateOutline after await syncProject(projectId); it goes on to await
\* autoGeneratePreview().
OutlineSynced(doc) ==
    /\ Idle
    /\ outlinePos = "syncing"
    /\ outlinePos' = "previewing"
    /\ currentProject' = doc
    /\ effectPending' = editorMounted
    /\ docChanged' = (editorMounted /\ doc # currentProject)
    /\ UNCHANGED <<pages, previewUrl, currentStep, completedSteps, autoStep,
                   autoPreviewPending, isLoadingPreview, isGeneratingImages,
                   isExporting, imgPoll, statusRes, stepAdvances>>
    /\ UNCHANGED <<isGeneratingOutline, regeneratingSlotId>>
    /\ UNCHANGED <<storeVars, eventVars, hookVars, descVars, pvVars, timerVars,
                   noticeVars>>
    /\ UNCHANGED channelVars
    /\ UNCHANGED outlineEditVars

\* handleGenerateOutline after await autoGeneratePreview(): the step becomes
\* descriptions, then finally.
OutlinePreviewed(hasData, optList) ==
    /\ Idle
    /\ outlinePos = "previewing"
    /\ outlinePos' = "none"
    /\ IF hasData
       THEN /\ previewUrl' = "url"
            /\ InstallSlots(optList)
       ELSE UNCHANGED <<previewUrl, imageSlots, effectPending>>
    /\ currentStep' = SetState(currentStep, "descriptions")
    /\ isGeneratingOutline' = SetState(isGeneratingOutline, FALSE)
    /\ UNCHANGED <<currentProject, pages, completedSteps, autoStep, docChanged,
                   autoPreviewPending, isLoadingPreview, isGeneratingImages,
                   isExporting, imgPoll, statusRes, stepAdvances>>
    /\ UNCHANGED regeneratingSlotId
    /\ UNCHANGED <<imageProgress, imageTaskId, wsConnected, eventVars, hookVars,
                   descVars, pvVars, timerVars, noticeVars>>
    /\ UNCHANGED channelVars
    /\ UNCHANGED outlineEditVars

\* handleRegenerateSingleImage up to its await (the user confirms): it returns
\* at once while a task is running. One regenerate at a time is explored.
RegenerateRequest(id) ==
    /\ Ready
    /\ ~isAnyTaskRunning
    /\ \E i \in DOMAIN imageSlots : imageSlots[i].slot_id = id
    /\ regeneratingSlotId = None
    /\ regeneratingSlotId' = id
    /\ UNCHANGED <<isGeneratingOutline, outlinePos>>
    /\ UNCHANGED <<storeVars, eventVars, hookVars, editorVars, descVars, pvVars,
                   timerVars, noticeVars>>
    /\ UNCHANGED channelVars
    /\ UNCHANGED outlineEditVars

\* handleRegenerateSingleImage after its await: with a task_id the slot becomes
\* generating; finally clears regeneratingSlotId.
RegenerateResponse(hasTask) ==
    /\ Idle
    /\ regeneratingSlotId # None
    /\ imageSlots' = IF hasTask
                     THEN updateSlotStatus(imageSlots, regeneratingSlotId, "generating", None)
                     ELSE imageSlots
    /\ regeneratingSlotId' = None
    /\ UNCHANGED <<isGeneratingOutline, outlinePos>>
    /\ UNCHANGED <<imageProgress, imageTaskId, wsConnected, eventVars, hookVars,
                   editorVars, descVars, pvVars, timerVars, noticeVars>>
    /\ UNCHANGED channelVars
    /\ UNCHANGED outlineEditVars

LaunchDocuments ==
    {doc \in EditorDocuments : AutoStepOf(doc) \in {"descriptions", "images"}}

\* The render response explored: the slot s1.
LaunchSlotLists == {<<list>> : list \in {l \in RenderSlotLists : l = <<"s1">>}}

NextLaunch ==
    \/ \E doc \in OutlineDocuments : SyncProject(doc)
    \/ RunDerivation
    \/ \E step \in WorkflowStep : NavigateTo(step)
    \/ ContinueToImages
    \/ OutlineLaunch
    \/ \E outcome \in {"pages", "nopages", "error"}, doc \in OutlineDocuments :
           OutlineResponse(outcome, doc)
    \/ \E doc \in OutlineDocuments : OutlineSynced(doc)
    \/ \E hasData \in BOOLEAN, optList \in LaunchSlotLists : OutlinePreviewed(hasData, optList)
    \/ DescLaunch
    \/ \E outcome \in {"task", "notask", "error"} : DescLaunchResponse(outcome)
    \/ \E status \in JobStatuses : DescPollResponse(status)
    \/ DescPollError
    \/ DescPollTimer
    \/ \E doc \in LaunchDocuments : DescSynced(doc)
    \/ \E hasData \in BOOLEAN, optList \in LaunchSlotLists : DescPreviewed(hasData, optList)
    \/ AutoPreviewRequest
    \/ \E optList \in LaunchSlotLists : AutoPreviewResponse(TRUE, optList)
    \/ PreviewRequest
    \/ \E optList \in LaunchSlotLists : PreviewResponse(TRUE, optList)
    \/ ImagesLaunch
    \/ \E outcome \in {"task", "notask", "error"} : ImagesLaunchResponse(outcome)
    \/ \E status \in JobStatuses : PollResponse(status, NoProgress)
    \/ PollError
    \/ PollTimer
    \/ ExportRequest
    \/ \E hasUrl \in BOOLEAN : ExportResponse(hasUrl)
    \/ \E id \in SlotIds : RegenerateRequest(id)
    \/ \E hasTask \in BOOLEAN : RegenerateResponse(hasTask)

SpecLaunch == InitStore /\ [][NextLaunch]_vars

----------------------------------------------------------------------------
(* Properties of the step derivation (checked under SpecDeriver, SpecEditor) *)

\* A step of the model in which the step-derivation effect runs.
DerivationRuns == effectPending /\ ~effectPending'

\* C5: a run of the step-derivation effect that was not triggered by new
\* document content (the document is what it was at the previous run) keeps
\* every stage that was in completedSteps.
C5_MonotonicStepInference ==
    [][(DerivationRuns /\ ~docChanged)
          => (completedSteps \cap WorkflowStep) \subseteq completedSteps']_vars

\* C6: a run of the step-derivation effect leaves currentStep where it is or
\* moves it to a strictly later step; from export it never moves.
C6_ForwardOnlyAutoAdvance ==
    [][DerivationRuns
          => /\ \/ currentStep' = currentStep
                \/ getStepIndex(currentStep') > getStepIndex(currentStep)
             /\ currentStep = "export" => currentStep' = "export"]_vars

\* The effect has run while the user was on export and the derived default was
\* images: the run replaced completedSteps by a set without images, which the
\* user needed to get to export, and the step is still export.
C6_Witness ==
    /\ ~effectPending
    /\ currentStep = "export"
    /\ autoStep = "images"
    /\ "images" \notin completedSteps
    /\ "descriptions" \in completedSteps

\* C7: a run of the step-derivation effect on a loaded document yields
\* completed = {outline if some page has a non-empty title} + {descriptions if
\* some page has description content} + {images if some page references a
\* generated image}, and as default the first of outline, descriptions, images
\* that is not complete, or export.
C7_DeriverResult ==
    [][(DerivationRuns /\ currentProject.loaded)
          => LET ps == currentProject.pages
                 titled == \E i \in DOMAIN ps : ps[i].title \notin {None, ""}
                 described == \E i \in DOMAIN ps : ps[i].description_content # None
                 illustrated == \E i \in DOMAIN ps :
                                   ~(ps[i].generated_image_url = None
                                     /\ ps[i].generated_image_path = None)
             IN  /\ completedSteps' = {st \in WorkflowStep :
                                          \/ st = "outline" /\ titled
                                          \/ st = "descriptions" /\ described
                                          \/ st = "images" /\ illustrated}
                 /\ autoStep' = IF ~titled THEN "outline"
                                ELSE IF ~described THEN "descriptions"
                                ELSE IF ~illustrated THEN "images"
                                ELSE "export"]_vars

\* The effect has run on a document of two pages of which only one is titled and
\* only one described, none with an image: completed is {outline, descriptions}
\* and the default is images.
C7_Witness ==
    /\ ~effectPending
    /\ currentProject.loaded
    /\ Len(currentProject.pages) = 2
    /\ \E i \in DOMAIN currentProject.pages : currentProject.pages[i].title = None
    /\ \E i \in DOMAIN currentProject.pages :
           currentProject.pages[i].description_content = None
    /\ completedSteps = {"outline", "descriptions"}
    /\ autoStep = "images"
    /\ currentStep = "images"

----------------------------------------------------------------------------
(* Properties of an image job (checked under SpecJob) *)

\* C9: when pollImageStatus handles a status response that carries progress
\* counters, whatever push events were applied before it, the store's
\* imageProgress equals the reported counters.
C9_PollReportReflected ==
    [][(imgPoll = "inflight" /\ imgPoll' # "inflight" /\ statusRes'.progress # NoProgress)
          => imageProgress' = statusRes'.progress[1]]_vars

\* C10: pollImageStatus advances the step to export at most once per job, and
\* once it has handled the job's terminal status COMPLETED or PARTIAL it has
\* advanced it exactly once and polls no more.
C10_StepAdvancesOnce ==
    /\ stepAdvances <= 1
    /\ statusRes.status \in {"COMPLETED", "PARTIAL"}
       => /\ stepAdvances = 1
          /\ imgPoll \in {"none", "launching"}

\* The terminal status was handled while the push channel, which had delivered
\* the job's completion event twice, was disconnected and waiting to reconnect:
\* the step is export and was advanced once.
C10_Witness ==
    /\ statusRes.status \in {"COMPLETED", "PARTIAL"}
    /\ stepAdvances = 1
    /\ currentStep = "export"
    /\ ~isGeneratingImages
    /\ sockState = "waiting"
    /\ ~isConnected
    /\ lastEvent.type = "task_completed"
    /\ repeated

----------------------------------------------------------------------------
(* Properties of the store (checked under SpecStore) *)

SlotsWithId(id) == {i \in DOMAIN imageSlots : imageSlots[i].slot_id = id}

\* C1: updateSlotStatus is idempotent: from every reachable store state, for
\* every slot id (present or not), status and optional image path, applying it
\* twice gives exactly the slot list that applying it once gives.
C1_UpdateSlotStatusIdempotent ==
    \A id \in SlotIds, status \in ImageSlotStatus, path \in MsgPaths :
        LET once == updateSlotStatus(imageSlots, id, status, path) IN
        updateSlotStatus(once, id, status, path) = once

\* A slot_completed message with a path was handled twice in a row for a slot
\* that is in the store.
C1_Witness ==
    /\ repeated
    /\ lastEvent.type = "slot_completed"
    /\ lastEvent.image_path # None
    /\ SlotsWithId(lastEvent.slot_id) # {}

\* C2: slot_started(X) and slot_completed(X, path) handled one right after the
\* other, in either order, leave slot X (when it is in the store) completed
\* with image_path = path.
C2_OrderIndependence ==
    [][\A id \in SlotIds, path \in Paths :
          LET started == Msg("slot_started", id, None, NoProgress)
              isCompleted(m) == /\ m.type = "slot_completed"
                                /\ m.slot_id = id
                                /\ m.image_path = path
          IN  (\/ (isCompleted(lastEvent) /\ lastEvent' = started)
               \/ (lastEvent = started /\ isCompleted(lastEvent')))
              => \A i \in DOMAIN imageSlots' :
                     imageSlots'[i].slot_id = id
                     => /\ imageSlots'[i].status = "completed"
                        /\ imageSlots'[i].image_path = path]_vars

C8_DuplicateFailedCountedOnce ==
    (repeated /\ lastEvent.type = "slot_failed" /\ lastEvent.progress # NoProgress)
    => /\ imageProgress = lastEvent.progress[1]
       /\ \A i \in SlotsWithId(lastEvent.slot_id) : imageSlots[i].status = "failed"

\* The duplicate slot_failed was handled for a slot in the store, with a snapshot
\* that counts one failure.
C8_Witness ==
    /\ repeated
    /\ lastEvent.type = "slot_failed"
    /\ lastEvent.progress # NoProgress
    /\ SlotsWithId(lastEvent.slot_id) # {}
    /\ \A i \in SlotsWithId(lastEvent.slot_id) : imageSlots[i].status = "failed"
    /\ imageProgress.failed = 1


\* C11: for every slot in the store, updateSlotStatus with the slot's id gives
\* the slot the given status, and the given image path when one is given, the
\* slot's previous image path when none is given.
C11_ImagePathRule ==
    \A i \in DOMAIN imageSlots, status \in ImageSlotStatus, path \in MsgPaths :
        LET after == updateSlotStatus(imageSlots, imageSlots[i].slot_id, status, path)[i] IN
        /\ after.status = status
        /\ path # None => after.image_path = path
        /\ path = None => after.image_path = imageSlots[i].image_path

\* A slot_failed message (no path) was handled for a slot that had an image
\* path: the slot is failed and still has its path.
C11_Witness ==
    /\ lastEvent.type = "slot_failed"
    /\ \E i \in SlotsWithId(lastEvent.slot_id) :
           /\ imageSlots[i].status = "failed"
           /\ imageSlots[i].image_path \in Paths

\* C12: a handler that only calls updateSlotStatus (slot_started, upload), run
\* with a slot id that no slot of the store has, leaves every store field
\* unchanged, and so does updateSlotStatus with that id for every status and
\* optional path.
C12_UnknownSlotNoOp ==
    [][(/\ lastEvent'.type \in {"slot_started", "upload"}
        /\ lastEvent'.slot_id \in SlotIds
        /\ SlotsWithId(lastEvent'.slot_id) = {})
       => /\ storeVars' = storeVars
          /\ \A status \in ImageSlotStatus, path \in MsgPaths :
                 updateSlotStatus(imageSlots, lastEvent'.slot_id, status, path)
                     = imageSlots]_vars

\* An upload response was handled for a slot id that is not in the store, which
\* holds another slot.
C12_Witness ==
    /\ lastEvent.type = "upload"
    /\ SlotsWithId(lastEvent.slot_id) = {}
    /\ Len(imageSlots) = 1


TerminalStatus == {"completed", "failed", "uploaded"}

\* C13: in every reachable store state each slot has an image_path if and only
\* if its status is completed or uploaded.
C13_ImagePathInvariant ==
    \A i \in DOMAIN imageSlots :
        (imageSlots[i].image_path # None)
            <=> (imageSlots[i].status \in {"completed", "uploaded"})

\* C14: no step takes a slot that is completed, failed or uploaded to pending.
\* (No operation sets pending on a regenerate request, so the claim's exception
\* needs no case.)
C14_NoRollbackToPending ==
    [][\A i \in DOMAIN imageSlots, j \in DOMAIN imageSlots' :
          (/\ imageSlots'[j].slot_id = imageSlots[i].slot_id
           /\ imageSlots[i].status \in TerminalStatus)
          => imageSlots'[j].status # "pending"]_vars

\* C15: a step that takes a completed, failed or uploaded slot to generating is
\* the user's regenerate of that slot.
C15_GeneratingOnlyByRegenerate ==
    [][\A i \in DOMAIN imageSlots, j \in DOMAIN imageSlots' :
          (/\ imageSlots'[j].slot_id = imageSlots[i].slot_id
           /\ imageSlots[i].status \in TerminalStatus
           /\ imageSlots'[j].status = "generating")
          => /\ lastEvent'.type = "regenerate"
             /\ lastEvent'.slot_id = imageSlots[i].slot_id]_vars

\* C16: a successful upload for a slot leaves that slot uploaded with the
\* response's url as image_path, whatever its status was; and a step that makes
\* a slot uploaded is an upload for that slot.
C16_UploadForcesUploaded ==
    [][/\ lastEvent'.type = "upload"
          => \A j \in DOMAIN imageSlots' :
                 imageSlots'[j].slot_id = lastEvent'.slot_id
                 => /\ imageSlots'[j].status = "uploaded"
                    /\ imageSlots'[j].image_path = lastEvent'.image_path
       /\ \A i \in DOMAIN imageSlots, j \in DOMAIN imageSlots' :
              (/\ imageSlots'[j].slot_id = imageSlots[i].slot_id
               /\ imageSlots[i].status # "uploaded"
               /\ imageSlots'[j].status = "uploaded")
              => /\ lastEvent'.type = "upload"
                 /\ lastEvent'.slot_id = imageSlots[i].slot_id]_vars

\* An upload was handled for a slot of the store while another slot is
\* generating: the slot is uploaded with the url of the response.
C16_Witness ==
    /\ lastEvent.type = "upload"
    /\ \E j \in SlotsWithId(lastEvent.slot_id) :
           /\ imageSlots[j].status = "uploaded"
           /\ imageSlots[j].image_path = lastEvent.image_path
    /\ \E j \in DOMAIN imageSlots : imageSlots[j].status = "generating"


----------------------------------------------------------------------------
(* Properties of the push channel's protocol (checked under SpecWS) *)

\* C17: every step in which the socket fires 'connect' (first connection or
\* reconnection) emits exactly one message, subscribe_task with the task id the
\* socket was opened for, which is the hook's current taskId.
C17_SubscribeOnConnect ==
    [][(sockState = "opening" /\ sockState' = "open")
          => /\ wire' = <<[op |-> "subscribe_task", task_id |-> sockTask]>>
             /\ sockTask = taskProp
             /\ sockTask \in TaskIds]_vars

\* The socket fired 'connect' for task t2, the task the hook holds: the step
\* emitted subscribe_task for t2 and reset the hook's failure counter and notice.
C17_Witness ==
    /\ sockState = "open"
    /\ isConnected
    /\ wire = <<[op |-> "subscribe_task", task_id |-> "t2"]>>
    /\ taskProp = "t2"
    /\ reconnectAttempts = 0
    /\ connectionError = "null"

\* C18: in every step of the hook that closes a connected (hence subscribed)
\* socket with socket.disconnect(), the close is immediately preceded by an
\* unsubscribe_task for the task id that socket was opened for.
C18_UnsubscribeBeforeClose ==
    [][\A k \in DOMAIN wire' :
          (sockState = "open" /\ wire'[k].op = "close")
          => /\ k > 1
             /\ wire'[k - 1] = [op |-> "unsubscribe_task", task_id |-> wire'[k].task_id]]_vars


----------------------------------------------------------------------------
(* Properties of the polling loops (checked under SpecPolling, SpecPollingFair) *)

\* C19: once the editor is unmounted, no status request of pollImageStatus or
\* pollTaskStatus is in flight and no timer of theirs is pending.
C19_NoPollAfterTeardown ==
    ~editorMounted
    => /\ imgPoll \notin {"inflight", "timer"}
       /\ descPoll \notin {"inflight", "timer"}

\* Each loop has a status request in flight or scheduled.
ImagePolling == imgPoll \in {"inflight", "timer"}
DescPolling == descPoll \in {"inflight", "timer"}

C21_FailedPollKeepsPolling ==
    [][/\ (imgPoll = "inflight" /\ imgPoll' # "inflight" /\ statusRes'.status = "error")
          => /\ imgPoll' = "timer"
             /\ imgDelay' > ImagePollDelay
             /\ <<isGeneratingImages, currentStep, completedSteps>>'
                    = <<isGeneratingImages, currentStep, completedSteps>>
       /\ (descPoll = "inflight" /\ descPoll' # "inflight" /\ descStatus' = "error")
          => /\ descPoll' = "timer"
             /\ descDelay' > TaskPollDelay
             /\ <<isGeneratingDescriptions, currentStep, completedSteps>>'
                    = <<isGeneratingDescriptions, currentStep, completedSteps>>
       /\ (pvInterval /\ pvInflight' < pvInflight /\ pvLast' = "error")
          => /\ pvInterval'
             /\ pvDelay' > PvPollInterval
             /\ pvGenerating' = pvGenerating
       /\ (ImagePolling /\ ~ImagePolling')
          => statusRes'.status \in {"COMPLETED", "PARTIAL", "FAILED"}
       /\ (DescPolling /\ ~DescPolling')
          => descStatus' \in {"COMPLETED", "PARTIAL", "FAILED"}
       /\ (pvInterval /\ ~pvInterval') => (pvDone' \/ ~pvMounted')]_vars


----------------------------------------------------------------------------
(* Properties of job-level failure *)

\* C22: handling a task_failed event sets imageTaskId to null and leaves
\* imageSlots (every slot's status and image_path), imageProgress and
\* wsConnected as they were; the same holds of handleTaskFailed for a
\* task_failed message with any slot id, path and progress.
C22_TaskFailedKeepsResults ==
    [][lastEvent'.type = "task_failed"
       => /\ imageTaskId' = None
          /\ <<imageSlots, imageProgress, wsConnected>>'
                 = <<imageSlots, imageProgress, wsConnected>>
          /\ \A id \in MsgSlotIds, path \in MsgPaths, progress \in MsgProgress :
                 handleTaskFailed(Store, Msg("task_failed", id, path, progress))
                     = [Store EXCEPT !.imageTaskId = None]]_vars

\* A task_failed event was just handled; the store holds a completed slot with
\* its image and non-zero counters, and no job id.
C22_Witness ==
    /\ lastEvent.type = "task_failed"
    /\ ~repeated
    /\ imageTaskId = None
    /\ \E i \in DOMAIN imageSlots :
           imageSlots[i].status = "completed" /\ imageSlots[i].image_path # None
    /\ imageProgress.completed > 0


\* C23: for one failed job the failure notice of a polling loop is raised
\* exactly once: never more than once by pollImageStatus or by the interval
\* callback of HTMLPreview, and once when pollImageStatus has handled FAILED.
C23_FailureNoticeOnce ==
    /\ imgFailNotices <= 1
    /\ pvFailNotices <= 1
    /\ (statusRes.status = "FAILED" => imgFailNotices = 1)


\* C24: a poll response with status PARTIAL completes the stage and advances
\* the step as COMPLETED does (image job: images completed, step export;
\* description job: descriptions completed, step images), and the notice shown
\* for PARTIAL differs from the one for COMPLETED and reports the failed count.
C24_PartialAdvancesAndIsReported ==
    [][/\ (imgPoll = "inflight" /\ imgPoll' # "inflight" /\ statusRes'.status = "PARTIAL")
          => /\ editorMounted => (currentStep' = "export" /\ "images" \in completedSteps')
             /\ pollNotice' # imageStatusNotice("COMPLETED", pollNotice)
             /\ pollNotice'.reportsFailed
       /\ (descPoll = "inflight" /\ descPoll' # "inflight" /\ descStatus' = "PARTIAL")
          => (editorMounted => "descriptions" \in completedSteps')
       /\ (descPoll = "previewing" /\ descPoll' = "none" /\ descStatus = "PARTIAL")
          => /\ editorMounted => currentStep' = "images"
             /\ pollNotice' # taskStatusNotice("COMPLETED", pollNotice)
             /\ pollNotice'.reportsFailed
       /\ (pvInflight' < pvInflight /\ pvNotice' # pvNotice /\ pvNotice'.text = "partly_done")
          => /\ pvNotice' # previewStatusNotice("COMPLETED", pvNotice)
             /\ pvNotice'.reportsFailed]_vars


\* C25: a launch of an image batch with an empty slot set is rejected before
\* any request: from a state without slots no step starts a launch, sets the
\* generating flag or starts a polling loop, and the call of
\* handleGenerateImages only shows its notice (editor and HTMLPreview).
C25_EmptyLaunchRejected ==
    [][/\ (Len(imageSlots) = 0 /\ imgPoll = "none")
          => /\ imgPoll' = "none"
             /\ isGeneratingImages' = isGeneratingImages
             /\ imageTaskId' = imageTaskId
             /\ launchNotice' \in {launchNotice, RenderFirstNotice}
       /\ (pvSlots # "some" /\ ~pvLaunch)
          => /\ ~pvLaunch'
             /\ pvGenerating' => pvGenerating
             /\ pvInterval' => pvInterval
             /\ pvLaunchNotice' \in {pvLaunchNotice, NoSlotsNotice}]_vars

\* handleGenerateImages was called on the images step with no slot in the
\* store: its notice is shown, no launch is under way and the flag is not set.
C25_Witness ==
    /\ launchNotice = RenderFirstNotice
    /\ Len(imageSlots) = 0
    /\ imgPoll = "none"
    /\ ~isGeneratingImages
    /\ currentStep = "images"


----------------------------------------------------------------------------
(* Properties of the launch gating and the navigation (SpecLaunch) *)

\* The batch jobs whose launcher has not run to its end: the outline job, the
\* description job, the image job, the export.
BatchJobsInFlight ==
    (IF outlinePos # "none" THEN {"outline"} ELSE {})
    \cup (IF descPoll # "none" THEN {"descriptions"} ELSE {})
    \cup (IF imgPoll # "none" THEN {"images"} ELSE {})
    \cup (IF isExporting THEN {"export"} ELSE {})

Enterable(step) ==
    \/ getStepIndex(step) = 1
    \/ step \in completedSteps
    \/ stepOrder[getStepIndex(step) - 1] \in completedSteps

\* C27: every user navigation (a click on the step indicator, the continue /
\* skip button of the descriptions step) moves currentStep only to a step that
\* is the first step, is completed, or directly follows a completed step.
C27_NavigationGated ==
    [][(currentStep' # currentStep /\ ~DerivationRuns) => Enterable(currentStep')]_vars


----------------------------------------------------------------------------
(* Properties of the slot replacement and of the progress at launch *)

\* C28: after a render response is installed the slot list is exactly the
\* render's slots, each pending and without image_path (nothing of the previous
\* list survives), and setImageSlots returns its argument for every slot list.
C28_SlotReplacementTotal ==
    [][lastEvent'.type = "render"
       => /\ \A j \in DOMAIN imageSlots' :
                 imageSlots'[j] = PendingSlot(imageSlots'[j].slot_id)
          /\ \A list \in RenderSlotLists :
                 LET slots == [i \in DOMAIN list |-> PendingSlot(list[i])]
                 IN  setImageSlots(slots) = slots]_vars

\* A render with two slots was just installed in a store that had handled
\* completions of an earlier generation.
C28_Witness ==
    /\ lastEvent.type = "render"
    /\ Len(imageSlots) = 2
    /\ imageProgress.completed > 0


\* C29: while a newly launched image job has not reported anything yet (the
\* launch request of handleGenerateImages is in flight), the store's
\* imageProgress holds no counts of a previous job.
C29_ProgressResetAtLaunch ==
    imgPoll = "launching" => imageProgress = initialProgress

----------------------------------------------------------------------------
(* The channels of an image job together: SpecChannels *)

\* The push-channel hook with its reconnect, the image job of the editor and
\* the image job of HTMLPreview.
NextChannels ==
    \/ \E doc \in JobDocuments : SyncProject(doc)
    \/ RunDerivation
    \/ AutoPreviewRequest
    \/ \E optList \in LaunchSlotLists : AutoPreviewResponse(TRUE, optList)
    \/ ImagesLaunch
    \/ ImagesLaunchResponse("task")
    \/ \E status \in JobStatuses : PollResponse(status, NoProgress)
    \/ PollError
    \/ PollTimer
    \/ PvRender("some")
    \/ PvGenerate
    \/ \E ok \in BOOLEAN : PvLaunchResponse(ok)
    \/ PvTick
    \/ \E success \in BOOLEAN, status \in JobStatuses : PvResponse(success, status)
    \/ PvError
    \/ PvUnmount
    \/ \E created \in BOOLEAN : Mount("t1", created)
    \/ \E created \in BOOLEAN : Reconnect(created)
    \/ Unmount
    \/ ConnectOk
    \/ TransportClose
    \/ ReconnectTimer

SpecChannels == InitPolling /\ [][NextChannels]_vars

\* The sockets the hook has made that are live.
OpenSockets == staleSockets + (IF SocketLive THEN 1 ELSE 0)

\* C30: at most one socket of the push channel is live (connect() closes the
\* one in socketRef before it makes another); pollImageStatus has at most one
\* timer pending, and only between two of its requests; HTMLPreview has at
\* most one interval running, the one held in pollingIntervalRef.
C30_OneChannelPerJob ==
    /\ OpenSockets <= 1
    /\ imgTimers <= 1
    /\ (imgTimers = 1) <=> (imgPoll = "timer")
    /\ pvTimers <= 1
    /\ (pvTimers = 1) <=> pvInterval

\* connect() has just replaced a live socket while the polling loop of the
\* editor waits on its retry timer.
C30_Witness ==
    /\ wire = closeWire
    /\ sockState = "opening"
    /\ OpenSockets = 1
    /\ imgPoll = "timer"
    /\ statusRes.status = "error"
    /\ imgTimers = 1

----------------------------------------------------------------------------
(* Inbound events of the push channel: SpecInbound *)

\* The event names connect() registers a store-facing handler for.
KnownKinds == {"slot_started", "slot_completed", "slot_failed", "task_completed",
               "task_failed"}
SlotKinds == {"slot_started", "slot_completed", "slot_failed"}

\* An event name the server may emit that connect() registers no handler for.
UnknownKinds == {"slot_progress"}

\* The store operations each handler calls for a message, in call order.
SlotCall(data) == IF data.slot_id # None THEN <<"updateSlotStatus">> ELSE <<>>
ProgressCall(data) == IF data.progress # NoProgress THEN <<"updateImageProgress">> ELSE <<>>
StoreCalls(data) ==
    CASE data.type = "slot_started"   -> SlotCall(data)
      [] data.type = "slot_completed" -> SlotCall(data) \o ProgressCall(data)
      [] data.type = "slot_failed"    -> SlotCall(data) \o ProgressCall(data)
      [] data.type = "task_completed" -> <<"setImageTaskId">> \o ProgressCall(data)
      [] data.type = "task_failed"    -> <<"setImageTaskId">>
      [] OTHER                        -> <<>>

\* The socket delivers an event no handler is registered for: nothing runs.
OnUnknownEvent(kind, id, path, progress) ==
    LET data == Msg(kind, id, path, progress) IN
    /\ Apply(Dispatch(Store, data))
    /\ Record(data)
    /\ UNCHANGED <<wsConnected, hookVars, editorVars, descVars, pvVars>>
    /\ UNCHANGED timerVars
    /\ UNCHANGED noticeVars
    /\ UNCHANGED launchVars
    /\ UNCHANGED channelVars
    /\ UNCHANGED outlineEditVars

\* The slot ids and image paths of the messages of SpecInbound: one slot of the
\* live set, one path, or the field missing.
InboundSlotIds == {"s1", None}
InboundPaths == {"img1", None}

NextInbound ==
    \/ InstallRender(<<"s1">>)
    \/ \E id \in InboundSlotIds : OnSlotStarted(id)
    \/ \E id \in InboundSlotIds, path \in InboundPaths, progress \in MsgProgress :
           OnSlotCompleted(id, path, progress)
    \/ \E id \in InboundSlotIds, progress \in MsgProgress : OnSlotFailed(id, progress)
    \/ \E progress \in MsgProgress : OnTaskCompleted(progress)
    \/ OnTaskFailed
    \/ TrackJob
    \/ \E kind \in UnknownKinds, id \in InboundSlotIds, progress \in MsgProgress :
           OnUnknownEvent(kind, id, None, progress)

SpecInbound == InitStore /\ [][NextInbound]_vars

\* C31: the handler of every event of a known kind (a slot event naming its
\* slot) calls exactly one operation of the store.
C31_OneStoreOperation ==
    (/\ lastEvent.type \in KnownKinds
     /\ lastEvent.type \in SlotKinds => lastEvent.slot_id # None)
    => Len(StoreCalls(lastEvent)) = 1

\* C32: an event of an unknown kind, and a slot_started / slot_completed /
\* slot_failed event without slot_id, leaves imageSlots, imageProgress and
\* imageTaskId as they were.
C32_MalformedDropped ==
    [][(\/ lastEvent'.type \in UnknownKinds
        \/ (lastEvent'.type \in SlotKinds /\ lastEvent'.slot_id = None))
       => UNCHANGED <<imageSlots, imageProgress, imageTaskId>>]_vars

----------------------------------------------------------------------------
(* Properties of the progress counters and of the poll path (SpecJob) *)

\* The image job has been launched and pollImageStatus has seen no terminal
\* status of it.
JobUnresolved == imgPoll \in {"inflight", "timer"}

\* C33: from the launch of a job to its resolution, no step lowers
\* imageProgress.completed or imageProgress.failed, whatever order the push
\* events of the job arrive in.
C33_CountersNeverDecrease ==
    [][(JobUnresolved /\ JobUnresolved')
       => /\ imageProgress'.completed >= imageProgress.completed
          /\ imageProgress'.failed >= imageProgress.failed]_vars

\* The entries of the result map of a status response, for the slot the render
\* installed: generated with its image url, or failed.
ResultEntries ==
    {[slot_id |-> "s1", status |-> "done", image_url |-> "img1"],
     [slot_id |-> "s1", status |-> "failed", image_url |-> None]}

\* An image job followed by polling only (no push channel is connected).
NextPollPath ==
    \/ \E doc \in JobDocuments : SyncProject(doc)
    \/ RunDerivation
    \/ AutoPreviewRequest
    \/ \E optList \in LaunchSlotLists : AutoPreviewResponse(TRUE, optList)
    \/ ImagesLaunch
    \/ ImagesLaunchResponse("task")
    \/ \E status \in JobStatuses, progress \in JobReports, entry \in ResultEntries :
           PollResultResponse(status, progress, entry)
    \/ PollError
    \/ PollTimer

SpecPollPath == InitStore /\ [][NextPollPath]_vars

\* The push event that reports what an entry of the result map reports.
PushEquivalent(entry, progress) ==
    IF entry.status = "done"
    THEN Msg("slot_completed", entry.slot_id, entry.image_url, progress)
    ELSE Msg("slot_failed", entry.slot_id, None, progress)

\* C34: when pollImageStatus handles a status response that carries progress
\* and the result of a slot, the store's imageSlots and imageProgress become
\* what the handler of the corresponding push event would have made them.
C34_PollLikePush ==
    [][(/\ imgPoll = "inflight" /\ imgPoll' # "inflight"
        /\ statusRes'.progress # NoProgress
        /\ statusRes'.result # NoResult)
       => LET st == Dispatch(Store, PushEquivalent(statusRes'.result[1],
                                                   statusRes'.progress))
          IN  /\ imageSlots' = st.imageSlots
              /\ imageProgress' = st.imageProgress]_vars

----------------------------------------------------------------------------
(* The outline item editor (OutlineItemEditor): SpecOutlineEdit *)

\* debounceRef.current holds no pending timer.
NoTimer == [field |-> "none", value |-> <<>>]

\* What the user types into the title input.
TitleInputs == {"t0", "t1", "t2"}

\* What the user types into the bullets textarea, as the lines of the text
\* (a line may be empty).
BulletInputs == {<<>>, <<"b1">>, <<"b1", "">>, <<"", "b2">>, <<"b1", "b2">>}

\* value.split('\n').filter(Boolean): the non-empty lines.
SplitBullets(lines) == SelectSeq(lines, LAMBDA l : l # "")

\* The other parts of the model, which the outline item editor leaves alone.
OutsideOutlineEdit ==
    <<storeVars, eventVars, hookVars, editorVars, descVars, pvVars, timerVars,
      noticeVars, launchVars, channelVars>>

\* handleTitleChange: buffers the value, clears the timer in debounceRef and
\* sets one that will call onUpdateTitle(value).
handleTitleChange(value) ==
    /\ localTitle' = value
    /\ debounceRef' = [field |-> "title", value |-> value]
    /\ titleCommits' = <<0>>
    /\ UNCHANGED <<localBullets, pageTitle, pageBullets, bulletCommits>>
    /\ UNCHANGED OutsideOutlineEdit

\* handleBulletsChange: buffers the value, clears the timer in debounceRef and
\* sets one that will call onUpdateBullets(value.split('\n').filter(Boolean)).
handleBulletsChange(value) ==
    /\ localBullets' = value
    /\ debounceRef' = [field |-> "bullets", value |-> value]
    /\ bulletCommits' = <<0>>
    /\ UNCHANGED <<localTitle, pageTitle, pageBullets, titleCommits>>
    /\ UNCHANGED OutsideOutlineEdit

\* 500 ms pass without input: the pending timer fires and its callback commits
\* the value it was set with (updatePageTitle / updatePageBullets).
DebounceFire ==
    /\ debounceRef # NoTimer
    /\ debounceRef' = NoTimer
    /\ IF debounceRef.field = "title"
       THEN /\ pageTitle' = debounceRef.value
            /\ titleCommits' = <<titleCommits[1] + 1>>
            /\ UNCHANGED <<pageBullets, bulletCommits>>
       ELSE /\ pageBullets' = SplitBullets(debounceRef.value)
            /\ bulletCommits' = <<bulletCommits[1] + 1>>
            /\ UNCHANGED <<pageTitle, titleCommits>>
    /\ UNCHANGED <<localTitle, localBullets>>
    /\ UNCHANGED OutsideOutlineEdit

NextOutlineEdit ==
    \/ \E value \in TitleInputs : handleTitleChange(value)
    \/ \E value \in BulletInputs : handleBulletsChange(value)
    \/ DebounceFire

SpecOutlineEdit == InitStore /\ [][NextOutlineEdit]_vars

\* C35: once input has stopped for the debounce delay (no timer is pending),
\* the latest buffered title, if the title was edited, has been committed to
\* the store exactly once, and so have the latest buffered bullets.
C35_DebouncedCommit ==
    debounceRef = NoTimer
    => /\ titleCommits # <<>> => (titleCommits = <<1>> /\ pageTitle = localTitle)
       /\ bulletCommits # <<>>
          => (bulletCommits = <<1>> /\ pageBullets = SplitBullets(localBullets))

----------------------------------------------------------------------------
(* Properties of the launchers' step changes and release (SpecLaunch) *)

\* A step of the model in which a launcher's flow moves on: handleGenerateOutline,
\* handleGenerateDescriptions with pollTaskStatus, handleGeneratePreview, or
\* handleGenerateImages with pollImageStatus.
LauncherMoves ==
    \/ outlinePos' # outlinePos
    \/ descPoll' # descPoll
    \/ isLoadingPreview' # isLoadingPreview
    \/ imgPoll' # imgPoll

\* C36: a change of currentStep made by a launcher (not by the user's
\* navigation) goes to a step that is not earlier than the current one.
C36_LaunchersNeverStepBack ==
    [][(LauncherMoves /\ currentStep' # currentStep)
       => getStepIndex(currentStep') >= getStepIndex(currentStep)]_vars

\* Every request of a launcher returns or throws, every timer fires, the effect
\* runs, and the server reports a terminal status of every job.
FairRelease ==
    /\ FairPolling
    /\ SF_vars(\E outcome \in {"task", "notask", "error"} : ImagesLaunchResponse(outcome))
    /\ SF_vars(\E outcome \in {"task", "notask", "error"} : DescLaunchResponse(outcome))
    /\ SF_vars(\E doc \in PollDocuments : DescSynced(doc))
    /\ SF_vars(\E hasData \in BOOLEAN, optList \in JobSlotLists : DescPreviewed(hasData, optList))
    /\ SF_vars(\E optList \in JobSlotLists : AutoPreviewResponse(TRUE, optList))

SpecRelease == SpecPolling /\ FairRelease

\* C37: while the editor is mounted, a launcher's in-progress flag that is set
\* is eventually reset: isAnyTaskRunning does not stay true forever.
C37_LaunchReleased ==
    (editorMounted /\ isAnyTaskRunning) ~> (~isAnyTaskRunning \/ ~editorMounted)

----------------------------------------------------------------------------
(* The single-slot regenerate: SpecRegenerate *)

\* The editor with rendered slots: the single-slot regenerate, and the image
\* job with its polling loop. No preview is rendered again after the first.
NextRegenerate ==
    \/ \E doc \in JobDocuments : SyncProject(doc)
    \/ RunDerivation
    \/ AutoPreviewRequest
    \/ \E optList \in JobSlotLists : AutoPreviewResponse(TRUE, optList)
    \/ \E id \in SlotIds : RegenerateRequest(id)
    \/ \E hasTask \in BOOLEAN : RegenerateResponse(hasTask)
    \/ ImagesLaunch
    \/ ImagesLaunchResponse("task")
    \/ \E status \in JobStatuses : PollResponse(status, NoProgress)
    \/ PollError
    \/ PollTimer

\* Requests return, timers fire, the effect runs, the server finishes its jobs.
FairRegenerate ==
    /\ WF_vars(RunDerivation)
    /\ SF_vars(\E hasTask \in BOOLEAN : RegenerateResponse(hasTask))
    /\ SF_vars(\E optList \in JobSlotLists : AutoPreviewResponse(TRUE, optList))
    /\ SF_vars(ImagesLaunchResponse("task"))
    /\ SF_vars(PollTimer)
    /\ SF_vars(\E status \in {"COMPLETED", "PARTIAL", "FAILED"} : PollResponse(status, NoProgress))

SpecRegenerate == InitStore /\ [][NextRegenerate]_vars

SpecRegenerateFair == SpecRegenerate /\ FairRegenerate

\* The status of the slot with this id, None if the store has no such slot.
SlotStatusOf(id) ==
    IF \E i \in DOMAIN imageSlots : imageSlots[i].slot_id = id
    THEN imageSlots[CHOOSE i \in DOMAIN imageSlots : imageSlots[i].slot_id = id].status
    ELSE None

\* C38: a slot that a single-slot regenerate has set to generating eventually
\* becomes completed or failed.
C38_RegeneratedSlotSettles ==
    /\ (SlotStatusOf("s1") = "generating") ~> (SlotStatusOf("s1") \in {"completed", "failed"})
    /\ (SlotStatusOf("s2") = "generating") ~> (SlotStatusOf("s2") \in {"completed", "failed"})

----------------------------------------------------------------------------
(* Frame of updateSlotStatus (SpecStore) *)

\* after differs from before at most in the status and image_path of the slots
\* whose slot_id is id.
SlotFrame(before, after, id) ==
    /\ Len(after) = Len(before)
    /\ \A i \in DOMAIN before :
           /\ after[i].slot_id = before[i].slot_id
           /\ after[i].page_index = before[i].page_index
           /\ after[i].description = before[i].description
           /\ before[i].slot_id # id => after[i] = before[i]

\* C39: updateSlotStatus(slotId, status, imagePath) changes only the status and
\* image_path of the slots whose slot_id is slotId: on every step that calls
\* only it (slot_started, regenerate, upload) the slot list keeps its length,
\* its order and every other field and slot, and imageProgress, imageTaskId,
\* wsConnected and pages are unchanged; the same holds of the operation for
\* every slot id, status and optional path.
C39_UpdateSlotStatusFrame ==
    [][lastEvent'.type \in {"slot_started", "regenerate", "upload"}
       => /\ SlotFrame(imageSlots, imageSlots', lastEvent'.slot_id)
          /\ UNCHANGED <<imageProgress, imageTaskId, wsConnected, pages>>
          /\ \A id \in SlotIds, status \in ImageSlotStatus, path \in MsgPaths :
                 SlotFrame(imageSlots,
                           updateSlotStatus(imageSlots, id, status, path), id)]_vars

\* An upload was applied to one of two slots while the other one is completed
\* with its image and the progress counts it.
C39_Witness ==
    /\ lastEvent.type = "upload"
    /\ Len(imageSlots) = 2
    /\ \E i, j \in DOMAIN imageSlots :
           /\ imageSlots[i].slot_id = lastEvent.slot_id
           /\ imageSlots[i].status = "uploaded"
           /\ imageSlots[j].slot_id # lastEvent.slot_id
           /\ imageSlots[j].status = "completed"
           /\ imageSlots[j].image_path # None
    /\ imageProgress.completed > 0

----------------------------------------------------------------------------
(* Type of completedSteps (SpecEditor) *)

\* C40: completedSteps holds workflow steps only.
C40_CompletedStepsTyped == completedSteps \subseteq WorkflowStep

====
